---- MODULE Spec2Model ----
(***************************************************************************)
(* A state-machine model of the CVRP hybrid solver (src/classes):          *)
(* Route, ClarkeWright, TwoOpt, KNeighbors and the pseudo-Boolean Solver.  *)
(* Python lists are TLA+ sequences (index t of the code is index t+1       *)
(* here); a Python dict is a sequence of [key, val] entries in insertion   *)
(* order, because the code iterates and sorts dicts in that order.         *)
(***************************************************************************)
EXTENDS Integers, Sequences, FiniteSets, TLC

VARIABLES
    cvrp,    \* the Instance: dimension, capacity, demands, distances
    cw,      \* the ClarkeWright object and the locals of its running method
    to,      \* the TwoOpt object and the locals of improve_routes
    kn,      \* the KNeighbors object
    solver,  \* the Solver object
    fs,      \* the working directory: which temporary files exist, and their content
    rt,      \* Route objects handled outside a stage
    pc       \* the position of the running stage

vars == <<cvrp, cw, to, kn, solver, fs, rt, pc>>

(***************************************************************************)
(* Bounds of the model.                                                    *)
(***************************************************************************)
MaxCustomers == 4   \* customers 1..MaxCustomers; dimension = MaxCustomers + 1
MaxCoord == 2       \* node coordinates are drawn from 0..MaxCoord
MaxCapacity == 3    \* vehicle capacity; demands are 1 or MaxCapacity - 1
MaxVehicles == 3    \* vehicle_number is MaxVehicles - 1 or MaxVehicles

Idle == "idle"      \* value of a component that the running stage does not use

(***************************************************************************)
(* Generic helpers: Python list and dict operations.                       *)
(***************************************************************************)
Range(s) == {s[k] : k \in 1..Len(s)}

Front(s) == SubSeq(s, 1, Len(s) - 1)

Last(s) == s[Len(s)]

Min(a, b) == IF a < b THEN a ELSE b

Contains(s, x) == \E k \in 1..Len(s) : s[k] = x

\* The element of a one-element set.  In The({F(v) : v \in {e}}) the argument e is
\* evaluated once and F receives its value, as in a Python call.
The(S) == CHOOSE x \in S : TRUE

\* list.remove(x): drop the first occurrence of x
ListRemove(s, x) ==
    LET p == CHOOSE k \in 1..Len(s) : s[k] = x /\ \A m \in 1..(k - 1) : s[m] # x
    IN  SubSeq(s, 1, p - 1) \o SubSeq(s, p + 1, Len(s))

\* The whole list reversed, whatever i and j
ReverseWhole(s, i, j) == [k \in 1..Len(s) |-> s[Len(s) + 1 - k]]

\* s[i:j] = s[i:j][::-1] in Python's 0-based half-open indices, 0 <= i, j <= len(s);
\* the slice is empty when j <= i
ReverseSlice(s, i, j) ==
    [k \in 1..Len(s) |-> IF k > i /\ k <= j THEN s[i + j + 1 - k] ELSE s[k]]

DictKeys(d) == [k \in 1..Len(d) |-> d[k].key]

DictHas(d, key) == \E k \in 1..Len(d) : d[k].key = key

DictGet(d, key) == (CHOOSE e \in Range(d) : e.key = key).val

\* d[key] = val: an existing key keeps its place, a new key goes last
DictSet(d, key, val) ==
    IF DictHas(d, key)
    THEN [k \in 1..Len(d) |-> IF d[k].key = key THEN [key |-> key, val |-> val] ELSE d[k]]
    ELSE Append(d, [key |-> key, val |-> val])

\* del d[key]
DictDel(d, key) == SelectSeq(d, LAMBDA e : e.key # key)

\* Place x in the sorted list t after every element whose sort key is <= x's.
\* An insertion that puts x before the elements of equal key
SortedInsertBeforeEquals(t, x, kf) ==
    LET p == Cardinality({k \in 1..Len(t) : kf[t[k]] < kf[x]})
    IN  SubSeq(t, 1, p) \o <<x>> \o SubSeq(t, p + 1, Len(t))

SortedInsert(t, x, kf) ==
    LET p == Cardinality({k \in 1..Len(t) : kf[t[k]] <= kf[x]})
    IN  SubSeq(t, 1, p) \o <<x>> \o SubSeq(t, p + 1, Len(t))

\* sorted(s, key=kf): ascending and stable (equal keys keep the order of s)
RECURSIVE sorted(_, _)
sorted(s, kf) ==
    IF s = <<>> THEN <<>>
    ELSE The({SortedInsert(t, Last(s), kf) : t \in {sorted(Front(s), kf)}})

(***************************************************************************)
(* Instance.  Nodes lie on a line (EUC_2D coordinates with y = 0), so the  *)
(* rounded Euclidean distance of load_distances is |x_i - x_j|.            *)
(***************************************************************************)
Abs(x) == IF x < 0 THEN -x ELSE x

Nodes(inst) == 0..(inst.dimension - 1)

Customers(inst) == 1..(inst.dimension - 1)

load_distances(dimension, node_coords) ==
    [i \in 0..(dimension - 1), j \in 0..(dimension - 1) |->
        Abs(node_coords[i] - node_coords[j])]

Instance(dimension, capacity, demands, node_coords) ==
    [dimension |-> dimension,
     capacity  |-> capacity,
     demands   |-> demands,
     distances |-> load_distances(dimension, node_coords)]

\* The instances of the model: the depot lies in the middle of the line and has
\* demand 0; every customer's demand is 1 or capacity - 1, so <= capacity.
InstancesOf(n) ==
    { Instance(n, MaxCapacity, [c \in 0..(n - 1) |-> IF c = 0 THEN 0 ELSE d[c]],
               [c \in 0..(n - 1) |-> IF c = 0 THEN MaxCoord \div 2 ELSE xs[c]]) :
        d \in [1..(n - 1) -> {1, MaxCapacity - 1}],
        xs \in [1..(n - 1) -> 0..MaxCoord] }

Instances == InstancesOf(MaxCustomers + 1)

\* round(x) for x = sqrt(s) / q: the nearest integer, and of two equally near ones
\* the even one
RoundedRoot(s, q) ==
    CHOOSE k \in 0..s :
        /\ \/ k = 0
           \/ (2 * k - 1) * (2 * k - 1) * q * q < 4 * s
           \/ (2 * k - 1) * (2 * k - 1) * q * q = 4 * s /\ k % 2 = 0
        /\ \/ 4 * s < (2 * k + 1) * (2 * k + 1) * q * q
           \/ 4 * s = (2 * k + 1) * (2 * k + 1) * q * q /\ k % 2 = 0

\* load_distances for nodes in the plane: node_coords[i] is the pair <<x, y>>; the
\* distance is divided by 10 for the type ATT, then rounded
load_distances_plane(dimension, edge_weight_type, node_coords) ==
    [i \in 0..(dimension - 1), j \in 0..(dimension - 1) |->
        LET dx == node_coords[i][1] - node_coords[j][1]
            dy == node_coords[i][2] - node_coords[j][2]
        IN  RoundedRoot(dx * dx + dy * dy, IF edge_weight_type = "ATT" THEN 10 ELSE 1)]

\* Four places around the depot <<0, 0>> whose rounded ATT distances are 1 to the
\* depot, 3 from the first place to the third and the fourth, and 1 otherwise
AttPlaces == <<(<<-13, 0>>), (<<1, 5>>), (<<13, 3>>), (<<13, -3>>)>>

\* Instances of type ATT: every customer at one of the four places (two customers at
\* the same place are at distance 0), unit demands, capacity MaxCapacity + 1.  The
\* rounding breaks the triangle inequality: 1 + 1 < 3.
AttInstances(n) ==
    { [dimension |-> n, capacity |-> MaxCapacity + 1,
       demands |-> [c \in 0..(n - 1) |-> IF c = 0 THEN 0 ELSE 1],
       distances |-> load_distances_plane(n, "ATT",
                        [c \in 0..(n - 1) |-> IF c = 0 THEN <<0, 0>> ELSE AttPlaces[pl[c]]])] :
        pl \in [1..(n - 1) -> 1..Len(AttPlaces)] }

\* Instances of two clusters: the first half of the customers at coordinate 0, the
\* others at MaxCoord, the depot between them; capacity MaxCapacity + 1 and every
\* demand in 1..MaxCapacity
ClusterInstances(n) ==
    { Instance(n, MaxCapacity + 1, [c \in 0..(n - 1) |-> IF c = 0 THEN 0 ELSE d[c]],
               [c \in 0..(n - 1) |-> IF c = 0 THEN MaxCoord \div 2
                                     ELSE IF c <= (n - 1) \div 2 THEN 0 ELSE MaxCoord]) :
        d \in [1..(n - 1) -> 1..MaxCapacity] }

\* Instances with the last two customers at coordinate MaxCoord and the other
\* customers at the coordinate of the depot; capacity MaxCapacity + 1 and every
\* demand in 1..MaxCapacity
NearDepotInstances(n) ==
    { Instance(n, MaxCapacity + 1, [c \in 0..(n - 1) |-> IF c = 0 THEN 0 ELSE d[c]],
               [c \in 0..(n - 1) |-> IF c >= n - 2 THEN MaxCoord ELSE MaxCoord \div 2]) :
        d \in [1..(n - 1) -> 1..MaxCapacity] }

(***************************************************************************)
(* Route (src/classes/route.py).  A route object is the record             *)
(* [value, _demand, _cost]; -1 in a memo field means "not computed".       *)
(***************************************************************************)
Route(value, demand) == [value |-> value, _demand |-> demand, _cost |-> -1]

RECURSIVE calculate_demand(_, _)
calculate_demand(inst, value) ==
    IF value = <<>> THEN 0
    ELSE inst.demands[Head(value)] + calculate_demand(inst, Tail(value))

RECURSIVE PathCost(_, _)
PathCost(inst, value) ==
    IF Len(value) < 2 THEN 0
    ELSE inst.distances[value[1], value[2]] + PathCost(inst, Tail(value))

calculate_cost(inst, value) ==
    inst.distances[0, value[1]] + PathCost(inst, value) + inst.distances[0, Last(value)]

\* The value the property route.demand returns
Route_demand(inst, r) ==
    IF r._demand < 0 THEN calculate_demand(inst, r.value) ELSE r._demand

\* The route object after the property route.demand was read (the memo is filled)
DemandRead(inst, r) == [r EXCEPT !._demand = Route_demand(inst, r)]

\* The value the property route.cost returns
Route_cost(inst, r) ==
    IF r._cost < 0 THEN calculate_cost(inst, r.value) ELSE r._cost

\* The route object after the property route.cost was read
CostRead(inst, r) == [r EXCEPT !._cost = Route_cost(inst, r)]

\* An append that leaves the memo of the demand as it was
Route_append_keeps_demand(inst, r, customer) ==
    [value |-> Append(r.value, customer), _demand |-> r._demand, _cost |-> -1]

Route_append(inst, r, customer) ==
    [value   |-> Append(r.value, customer),
     _demand |-> IF r._demand >= 0 THEN r._demand + inst.demands[customer] ELSE r._demand,
     _cost   |-> -1]

\* A remove that leaves the memo of the demand as it was
Route_remove_keeps_demand(inst, r, customer) ==
    [value |-> ListRemove(r.value, customer), _demand |-> r._demand, _cost |-> -1]

Route_remove(inst, r, customer) ==
    [value   |-> ListRemove(r.value, customer),
     _demand |-> IF r._demand >= 0 THEN r._demand - inst.demands[customer] ELSE r._demand,
     _cost   |-> -1]

\* A sum that carries the demand of other alone
Route_add_other_demand(inst, self, other) ==
    Route(self.value \o other.value, Route_demand(inst, other))

\* self + other for two routes: the new route
Route_add(inst, self, other) ==
    LET demand == Route_demand(inst, other)
    IN  Route(self.value \o other.value,
              IF demand >= 0 /\ Route_demand(inst, self) >= 0
              THEN demand + Route_demand(inst, self) ELSE demand)

\* self.reversed(i, j): the new route; i, j are Python indices, 0 <= i <= j <= len
Route_reversed(inst, self, i, j) ==
    Route(ReverseSlice(self.value, i, j), Route_demand(inst, self))

\* A reversal that leaves the first customer where it is
Route_reversed_tail(inst, self) == Route_reversed(inst, self, 1, Len(self.value))

\* self.reversed(): the whole sequence reversed
Route_reversed_all(inst, self) == Route_reversed(inst, self, 0, Len(self.value))

\* self + other for a plain list other: the demand of the new route is not known
Route_add_list(inst, self, other) == Route(self.value \o other, -1)

\* other + self for a plain list other (__radd__)
Route_radd(inst, self, other) == Route(other \o self.value, -1)

(***************************************************************************)
(* Any sequence of calls on Route objects.  rt = [self, other, fresh]: two *)
(* route objects a caller holds; every call is made on self, and the       *)
(* caller may exchange the two; fresh tells that other is the route the    *)
(* last call returned.  A route holds at most MaxRouteLen customers.       *)
(***************************************************************************)
MaxRouteLen == MaxCustomers - 1

\* Instances of MaxCustomers nodes on the line: customer 1 has demand 1, the other
\* customers have all demand 1 or all demand MaxCapacity - 1
RouteInstances ==
    { Instance(MaxCustomers, MaxCapacity,
               [c \in 0..(MaxCustomers - 1) |-> IF c = 0 THEN 0 ELSE IF c = 1 THEN 1 ELSE d],
               [c \in 0..(MaxCustomers - 1) |->
                   IF c = 0 THEN MaxCoord \div 2 ELSE c % (MaxCoord + 1)]) :
        d \in {1, MaxCapacity - 1} }

InitRoute ==
    /\ cvrp \in RouteInstances
    /\ rt \in {[self |-> Route(<<a>>, -1), other |-> Route(<<b>>, -1), fresh |-> FALSE] :
                 a \in 1..(MaxCustomers - 1), b \in 1..(MaxCustomers - 1)}
    /\ cw = Idle /\ to = Idle /\ kn = Idle /\ solver = Idle /\ fs = Idle
    /\ pc = "route"

\* self.append(customer)
Route_call_append ==
    /\ pc = "route"
    /\ Len(rt.self.value) < MaxRouteLen
    /\ \E customer \in Customers(cvrp) :
          rt' = [rt EXCEPT !.fresh = FALSE, !.self = Route_append(cvrp, rt.self, customer)]
    /\ UNCHANGED <<cvrp, cw, to, kn, solver, fs, pc>>

\* self.remove(customer) for a customer of the route (list.remove raises otherwise)
Route_call_remove ==
    /\ pc = "route"
    /\ \E customer \in Range(rt.self.value) :
          rt' = [rt EXCEPT !.fresh = FALSE, !.self = Route_remove(cvrp, rt.self, customer)]
    /\ UNCHANGED <<cvrp, cw, to, kn, solver, fs, pc>>

\* self.demand is read
Route_call_demand ==
    /\ pc = "route"
    /\ rt' = [rt EXCEPT !.fresh = FALSE, !.self = DemandRead(cvrp, rt.self)]
    /\ UNCHANGED <<cvrp, cw, to, kn, solver, fs, pc>>

\* self.cost is read (calculate_cost raises IndexError on an empty route)
Route_call_cost ==
    /\ pc = "route"
    /\ rt.self.value # <<>>
    /\ rt' = [rt EXCEPT !.fresh = FALSE, !.self = CostRead(cvrp, rt.self)]
    /\ UNCHANGED <<cvrp, cw, to, kn, solver, fs, pc>>

\* other = self.reversed(i, j): reads self.demand, returns a new route
Route_call_reversed(i, j) ==
    /\ pc = "route"
    /\ rt' = [self |-> DemandRead(cvrp, rt.self),
              other |-> Route_reversed(cvrp, rt.self, i, j), fresh |-> TRUE]
    /\ UNCHANGED <<cvrp, cw, to, kn, solver, fs, pc>>

\* self = self + other (as in self.routes[i] += self.routes[j]): reads both demands
Route_call_add ==
    /\ pc = "route"
    /\ Len(rt.self.value) + Len(rt.other.value) <= MaxRouteLen
    /\ rt' = [self |-> Route_add(cvrp, rt.self, rt.other),
              other |-> DemandRead(cvrp, rt.other), fresh |-> FALSE]
    /\ UNCHANGED <<cvrp, cw, to, kn, solver, fs, pc>>

\* self = self + other.value: the right operand is a plain list
Route_call_add_list ==
    /\ pc = "route"
    /\ Len(rt.self.value) + Len(rt.other.value) <= MaxRouteLen
    /\ rt' = [rt EXCEPT !.fresh = FALSE, !.self = Route_add_list(cvrp, rt.self, rt.other.value)]
    /\ UNCHANGED <<cvrp, cw, to, kn, solver, fs, pc>>

\* self = other.value + self: the left operand is a plain list
Route_call_radd ==
    /\ pc = "route"
    /\ Len(rt.self.value) + Len(rt.other.value) <= MaxRouteLen
    /\ rt' = [rt EXCEPT !.fresh = FALSE, !.self = Route_radd(cvrp, rt.self, rt.other.value)]
    /\ UNCHANGED <<cvrp, cw, to, kn, solver, fs, pc>>

\* The caller goes on with the other object
Route_exchange ==
    /\ pc = "route"
    /\ rt' = [self |-> rt.other, other |-> rt.self, fresh |-> FALSE]
    /\ UNCHANGED <<cvrp, cw, to, kn, solver, fs, pc>>

NextRoute ==
    \/ Route_call_append
    \/ Route_call_remove
    \/ Route_call_demand
    \/ Route_call_cost
    \/ \E i \in 0..MaxRouteLen, j \in 0..MaxRouteLen :
          i <= Len(rt.self.value) /\ j <= Len(rt.self.value) /\ Route_call_reversed(i, j)
    \/ Route_call_add
    \/ Route_call_add_list
    \/ Route_call_radd
    \/ Route_exchange

SpecRoute == InitRoute /\ [][NextRoute]_vars

(***************************************************************************)
(* ClarkeWright (src/classes/clarke_wright.py).                            *)
(* cw = [vehicle_number, savings, routes, k, remotions, r, error]:         *)
(* k is the position of combine_routes in self.savings, remotions the      *)
(* sorted key list the for loop of reduce_routes walks, r its position.    *)
(***************************************************************************)
RECURSIVE SavingsFrom(_, _, _)
SavingsFrom(inst, i, j) ==
    IF i >= inst.dimension THEN <<>>
    ELSE IF j >= inst.dimension THEN SavingsFrom(inst, i + 1, i + 2)
    ELSE << <<inst.distances[0, i] + inst.distances[0, j] - inst.distances[i, j], i, j>> >>
         \o SavingsFrom(inst, i, j + 1)

\* self.savings after load_savings: sort(key=x[0], reverse=True) is stable
load_savings(inst) ==
    LET unsorted == SavingsFrom(inst, 1, 2)
    IN  sorted(unsorted, [e \in Range(unsorted) |-> -e[1]])

\* self.routes after load_routes: one singleton route per customer, keyed by the customer
load_routes(inst) ==
    [c \in 1..(inst.dimension - 1) |-> [key |-> c, val |-> Route(<<c>>, -1)]]

\* A merge pass that tests only the demand of the first route against the capacity
MergeIgnoresSecondDemand(inst, ri, rj) ==
    Route_demand(inst, ri) > inst.capacity

\* The capacity test of combine_routes on the two routes to merge
MergeExceedsCapacity(inst, ri, rj) ==
    Route_demand(inst, ri) + Route_demand(inst, rj) > inst.capacity

\* One iteration of the for loop of combine_routes, on the savings entry (saving, i, j)
combine_entry(inst, routes, i, j) ==
    IF ~DictHas(routes, i) \/ ~DictHas(routes, j) THEN routes
    ELSE IF DictGet(routes, i).value = DictGet(routes, j).value THEN routes
    ELSE
      LET r1 == IF DictGet(routes, i).value[1] = i
                THEN DictSet(routes, i, Route_reversed_all(inst, DictGet(routes, i)))
                ELSE routes
          r2 == IF Last(DictGet(r1, j).value) = j
                THEN DictSet(r1, j, Route_reversed_all(inst, DictGet(r1, j)))
                ELSE r1
          ri == DictGet(r2, i)
          rj == DictGet(r2, j)
          r3 == DictSet(DictSet(r2, i, DemandRead(inst, ri)), j, DemandRead(inst, rj))
      IN  IF Last(ri.value) # i \/ rj.value[1] # j THEN r2
          ELSE IF MergeExceedsCapacity(inst, ri, rj) THEN r3
          ELSE DictDel(DictSet(r3, i, Route_add(inst, ri, rj)), j)

\* The key list sorted(self.routes, key=lambda i: len(self.routes[i]))
RemotionOrder(routes) ==
    sorted(DictKeys(routes), [key \in Range(DictKeys(routes)) |-> Len(DictGet(routes, key).value)])

\* The key list sorted(self.routes, key=lambda i: self.routes[i].demand)
AdditionOrder(inst, routes) ==
    sorted(DictKeys(routes),
           [key \in Range(DictKeys(routes)) |-> Route_demand(inst, DictGet(routes, key))])

\* Every route of the dict after its demand property was read
AllDemandRead(inst, routes) ==
    [k \in 1..Len(routes) |-> [key |-> routes[k].key, val |-> DemandRead(inst, routes[k].val)]]

AdditionNeverExceeds(inst, route, customer) == FALSE

\* The capacity test of reduce_routes on the receiving route
AdditionExceedsCapacity(inst, route, customer) ==
    Route_demand(inst, route) + inst.demands[customer] > inst.capacity

\* The for loop over the customers of the removed route: each is appended to the
\* first route of AdditionOrder that has room; stops at the first that fits nowhere.
RECURSIVE AddCustomers(_, _, _)
AddCustomers(inst, routes, customers) ==
    IF customers = <<>> THEN [routes |-> routes, remaining_customer |-> FALSE]
    ELSE
      LET customer == Head(customers)
          order == AdditionOrder(inst, routes)
          read == AllDemandRead(inst, routes)
          fits == {k \in 1..Len(order) :
                     ~AdditionExceedsCapacity(inst, DictGet(read, order[k]), customer)}
      IN  IF fits = {} THEN [routes |-> read, remaining_customer |-> TRUE]
          ELSE
            LET addition == order[CHOOSE k \in fits : \A m \in fits : k <= m]
            IN  The({AddCustomers(inst, appended, Tail(customers)) :
                       appended \in {DictSet(read, addition,
                                             Route_append(inst, DictGet(read, addition),
                                                          customer))}})

\* The rollback: every customer of the removed route is taken out of the routes holding it
RECURSIVE RemoveCustomers(_, _, _)
RemoveCustomers(inst, routes, customers) ==
    IF customers = <<>> THEN routes
    ELSE
      LET customer == Head(customers)
          removed == [k \in 1..Len(routes) |->
                        IF Contains(routes[k].val.value, customer)
                        THEN [key |-> routes[k].key,
                              val |-> Route_remove(inst, routes[k].val, customer)]
                        ELSE routes[k]]
      IN  The({RemoveCustomers(inst, r, Tail(customers)) : r \in {removed}})

\* One iteration of the for loop over remotions: [routes, route_removed]
reduce_attempt(inst, routes, remotion) ==
    LET remotion_route == DictGet(routes, remotion)
        Outcome(added) ==
            IF added.remaining_customer
            THEN [routes |-> DictSet(RemoveCustomers(inst, added.routes, remotion_route.value),
                                     remotion, remotion_route),
                  route_removed |-> FALSE]
            ELSE [routes |-> added.routes, route_removed |-> TRUE]
    IN  The({Outcome(added) :
               added \in {AddCustomers(inst, DictDel(routes, remotion), remotion_route.value)}})

ClarkeWright_init(vehicle_number) ==
    [vehicle_number |-> vehicle_number, savings |-> <<>>, routes |-> <<>>,
     k |-> 0, remotions |-> <<>>, r |-> 0, error |-> ""]

InitCW ==
    /\ cvrp \in Instances \cup AttInstances(MaxCustomers + 1)
    /\ cw \in {ClarkeWright_init(K) : K \in (MaxVehicles - 1)..MaxVehicles}
    /\ to = Idle /\ kn = Idle /\ solver = Idle /\ fs = Idle /\ rt = Idle
    /\ pc = "load_savings"

ClarkeWright_load_savings ==
    /\ pc = "load_savings"
    /\ cw' = [cw EXCEPT !.savings = load_savings(cvrp)]
    /\ pc' = "load_routes"
    /\ UNCHANGED <<rt, cvrp, to, kn, solver, fs>>

ClarkeWright_load_routes ==
    /\ pc = "load_routes"
    /\ cw' = [cw EXCEPT !.routes = load_routes(cvrp), !.k = 1]
    /\ pc' = "combine_routes"
    /\ UNCHANGED <<rt, cvrp, to, kn, solver, fs>>

\* One savings entry of combine_routes
ClarkeWright_combine_routes ==
    /\ pc = "combine_routes"
    /\ cw.k <= Len(cw.savings)
    /\ cw' = [cw EXCEPT !.routes = combine_entry(cvrp, cw.routes,
                                                 cw.savings[cw.k][2], cw.savings[cw.k][3]),
                        !.k = cw.k + 1]
    /\ UNCHANGED <<rt, cvrp, to, kn, solver, fs, pc>>

\* combine_routes returns, reduce_routes starts
ClarkeWright_combine_routes_end ==
    /\ pc = "combine_routes"
    /\ cw.k > Len(cw.savings)
    /\ pc' = "reduce_routes"
    /\ UNCHANGED <<rt, cvrp, cw, to, kn, solver, fs>>

\* A while test that also holds when the number of routes equals vehicle_number
ClarkeWright_reduce_routes_while_geq ==
    /\ pc = "reduce_routes"
    /\ Len(cw.routes) >= cw.vehicle_number
    /\ cw' = [cw EXCEPT !.remotions = RemotionOrder(cw.routes), !.r = 1]
    /\ pc' = "reduce_for"
    /\ UNCHANGED <<rt, cvrp, to, kn, solver, fs>>

\* The while test of reduce_routes holds: the for loop over the sorted keys starts
ClarkeWright_reduce_routes_while ==
    /\ pc = "reduce_routes"
    /\ Len(cw.routes) > cw.vehicle_number
    /\ cw' = [cw EXCEPT !.remotions = RemotionOrder(cw.routes), !.r = 1]
    /\ pc' = "reduce_for"
    /\ UNCHANGED <<rt, cvrp, to, kn, solver, fs>>

\* One iteration of the for loop: try to remove the route keyed cw.remotions[cw.r]
ClarkeWright_reduce_routes_for ==
    /\ pc = "reduce_for"
    /\ cw.r <= Len(cw.remotions)
    /\ LET res == reduce_attempt(cvrp, cw.routes, cw.remotions[cw.r])
       IN  /\ cw' = [cw EXCEPT !.routes = res.routes, !.r = cw.r + 1]
           /\ pc' = IF res.route_removed THEN "reduce_routes" ELSE "reduce_for"
    /\ UNCHANGED <<rt, cvrp, to, kn, solver, fs>>

\* The for loop ended with route_removed = False
ClarkeWright_reduce_routes_raise ==
    /\ pc = "reduce_for"
    /\ cw.r > Len(cw.remotions)
    /\ cw' = [cw EXCEPT !.error = "Cannot reduce the number of routes"]
    /\ pc' = "cw_raised"
    /\ UNCHANGED <<rt, cvrp, to, kn, solver, fs>>

\* The while test fails: run returns cw.routes
ClarkeWright_run_return ==
    /\ pc = "reduce_routes"
    /\ Len(cw.routes) <= cw.vehicle_number
    /\ pc' = "cw_done"
    /\ UNCHANGED <<rt, cvrp, cw, to, kn, solver, fs>>

NextCW ==
    \/ ClarkeWright_load_savings
    \/ ClarkeWright_load_routes
    \/ ClarkeWright_combine_routes
    \/ ClarkeWright_combine_routes_end
    \/ ClarkeWright_reduce_routes_while
    \/ ClarkeWright_reduce_routes_for
    \/ ClarkeWright_reduce_routes_raise
    \/ ClarkeWright_run_return

SpecCW == InitCW /\ [][NextCW]_vars

\* The runs checked for termination: the instances of SpecCW and the cluster instances
InitCWFair ==
    /\ cvrp \in Instances \cup ClusterInstances(MaxCustomers + 1)
    /\ cw \in {ClarkeWright_init(K) : K \in (MaxVehicles - 1)..MaxVehicles}
    /\ to = Idle /\ kn = Idle /\ solver = Idle /\ fs = Idle /\ rt = Idle
    /\ pc = "load_savings"

\* Runs on instances of one customer more, in which reduce_routes meets routes of
\* equal length and of equal load after a rollback
InitCWTies ==
    /\ cvrp \in NearDepotInstances(MaxCustomers + 2)
    /\ cw \in {ClarkeWright_init(K) : K \in (MaxVehicles - 1)..MaxVehicles}
    /\ to = Idle /\ kn = Idle /\ solver = Idle /\ fs = Idle /\ rt = Idle
    /\ pc = "load_savings"

SpecCWTies == InitCWTies /\ [][NextCW]_vars

\* The steps of reduce_routes
ReduceStep ==
    \/ ClarkeWright_reduce_routes_while
    \/ ClarkeWright_reduce_routes_for
    \/ ClarkeWright_reduce_routes_raise
    \/ ClarkeWright_run_return

\* reduce_routes executes its statements one after the other and is never
\* suspended for ever
SpecCWFair == InitCWFair /\ [][NextCW]_vars /\ WF_vars(ReduceStep)

(***************************************************************************)
(* TwoOpt (src/classes/two_opt.py).                                        *)
(* to = [routes, entry, keys, n, idx, best_route, route, alias, improved,  *)
(* i, j]: keys is the key list the for loop walks and n its position;      *)
(* (i, j) is the pair the scan evaluates next; alias says that best_route  *)
(* and route are the same object; entry is the RouteSet as it was passed   *)
(* to TwoOpt.run.                                                          *)
(***************************************************************************)
\* A comparison that accepts the costlier candidate
ImprovesInverted(inst, new_route, best_route) ==
    Route_cost(inst, new_route) > Route_cost(inst, best_route)

\* A comparison that also accepts a candidate of equal cost
ImprovesOrEqual(inst, new_route, best_route) ==
    Route_cost(inst, new_route) <= Route_cost(inst, best_route)

\* new_route.cost < best_route.cost
Improves(inst, new_route, best_route) ==
    Route_cost(inst, new_route) < Route_cost(inst, best_route)

\* An inner loop that stops one short: range(i + 1, len(route) - 1)
NextPairShort(len, i, j) ==
    IF j + 2 < len THEN <<i, j + 1>> ELSE <<i + 1, i + 2>>

\* The pair after (i, j) in the order of the two for loops over a route of length len
NextPair(len, i, j) ==
    IF j + 1 < len THEN <<i, j + 1>> ELSE <<i + 1, i + 2>>

\* The two for loops have pairs left: i in range(len - 1)
ScanRunning(len, i) == i < len - 1

TwoOpt_init(routes) ==
    [routes |-> routes, entry |-> routes, keys |-> DictKeys(routes), n |-> 1, idx |-> 0,
     best_route |-> Idle, route |-> Idle, alias |-> FALSE, improved |-> FALSE,
     i |-> 0, j |-> 0]

\* Distance matrices of the shape rounding gives (symmetric, zero diagonal, not bound
\* to the triangle inequality): depot distances 1, customer distances 1 or 2, unit
\* demands
OneTwoInstances(n) ==
    LET Pairs == {ab \in (1..(n - 1)) \X (1..(n - 1)) : ab[1] < ab[2]}
    IN  { [dimension |-> n, capacity |-> MaxCapacity,
           demands |-> [c \in 0..(n - 1) |-> IF c = 0 THEN 0 ELSE 1],
           distances |-> [i \in 0..(n - 1), j \in 0..(n - 1) |->
                            IF i = j THEN 0
                            ELSE IF i = 0 \/ j = 0 THEN 1
                            ELSE IF i < j THEN w[<<i, j>>] ELSE w[<<j, i>>]]] :
            w \in [Pairs -> {1, 2}] }

\* Unit-demand instances of n nodes, from coordinates or from a matrix
UnitInstances(n) ==
    {inst \in InstancesOf(n) : \A c \in Customers(inst) : inst.demands[c] = 1}
        \cup OneTwoInstances(n)

\* Inputs of the 2-opt stage
TwoOptInstances == UnitInstances(MaxCustomers + 1)

\* Route dicts over all customers: one route, or that route cut in two (the
\* customers' labels are arbitrary, the instance carries the geometry)
RouteSetsOf(m) ==
    LET h == m \div 2
        p == [c \in 1..m |-> c]
    IN  {<<[key |-> p[1], val |-> Route(p, -1)]>>,
         <<[key |-> p[1], val |-> Route(SubSeq(p, 1, h), -1)],
           [key |-> p[h + 1], val |-> Route(SubSeq(p, h + 1, m), -1)]>>}

RouteSets == RouteSetsOf(MaxCustomers)

InitTwoOpt ==
    /\ cvrp \in TwoOptInstances
    /\ to \in {TwoOpt_init(routes) : routes \in RouteSets}
    /\ cw = Idle /\ kn = Idle /\ solver = Idle /\ fs = Idle /\ rt = Idle
    /\ pc = "to_for"

\* for idx in self.routes: the next route is taken up
TwoOpt_for ==
    /\ pc = "to_for"
    /\ to.n <= Len(to.keys)
    /\ to' = [to EXCEPT !.idx = to.keys[to.n],
                        !.best_route = DictGet(to.routes, to.keys[to.n]),
                        !.route = DictGet(to.routes, to.keys[to.n]),
                        !.alias = TRUE]
    /\ pc' = "to_while"
    /\ UNCHANGED <<rt, cvrp, cw, kn, solver, fs>>

\* while True: a pass starts
TwoOpt_while ==
    /\ pc = "to_while"
    /\ to' = [to EXCEPT !.improved = FALSE, !.i = 0, !.j = 1]
    /\ pc' = "to_scan"
    /\ UNCHANGED <<rt, cvrp, cw, kn, solver, fs>>

\* One iteration of the inner for loop: the reversal of route[i..j] is compared
TwoOpt_scan ==
    /\ pc = "to_scan"
    /\ ScanRunning(Len(to.route.value), to.i)
    /\ LET route == DemandRead(cvrp, to.route)
           best == IF to.alias THEN route ELSE to.best_route
           new_route == Route_reversed(cvrp, to.route, to.i, to.j + 1)
           better == Improves(cvrp, new_route, best)
           next == NextPair(Len(to.route.value), to.i, to.j)
       IN  to' = [to EXCEPT
                    !.route = IF to.alias THEN CostRead(cvrp, route) ELSE route,
                    !.best_route = IF better THEN CostRead(cvrp, new_route)
                                   ELSE CostRead(cvrp, best),
                    !.alias = to.alias /\ ~better,
                    !.improved = to.improved \/ better,
                    !.i = next[1], !.j = next[2]]
    /\ UNCHANGED <<rt, cvrp, cw, kn, solver, fs, pc>>

\* The pass is over: route = best_route; without improvement the route is stored
TwoOpt_pass_end ==
    /\ pc = "to_scan"
    /\ ~ScanRunning(Len(to.route.value), to.i)
    /\ IF to.improved
       THEN /\ to' = [to EXCEPT !.route = to.best_route, !.alias = TRUE]
            /\ pc' = "to_while"
       ELSE /\ to' = [to EXCEPT !.route = to.best_route, !.alias = TRUE,
                                !.routes = DictSet(to.routes, to.idx, to.best_route),
                                !.n = to.n + 1]
            /\ pc' = "to_for"
    /\ UNCHANGED <<rt, cvrp, cw, kn, solver, fs>>

\* The for loop is over: run returns to.routes
TwoOpt_run_return ==
    /\ pc = "to_for"
    /\ to.n > Len(to.keys)
    /\ pc' = "to_done"
    /\ UNCHANGED <<rt, cvrp, cw, to, kn, solver, fs>>

NextTwoOpt ==
    \/ TwoOpt_for
    \/ TwoOpt_while
    \/ TwoOpt_scan
    \/ TwoOpt_pass_end
    \/ TwoOpt_run_return

SpecTwoOpt == InitTwoOpt /\ [][NextTwoOpt]_vars

\* The position of improve_routes: every step of the stage moves it
TwoOptPosition == <<to.n, to.i, to.j, pc>>

\* The stage runs by itself: a step that can be taken is taken
SpecTwoOptFair == InitTwoOpt /\ [][NextTwoOpt]_vars /\ WF_TwoOptPosition(NextTwoOpt)

(***************************************************************************)
(* KNeighbors (src/classes/k_neighbors.py).  The object is the record      *)
(* [neighbor_number, routes, mst, matrices, n, error]; mst is the set of   *)
(* edges {u, v} of the tree, matrices the dict idx -> matrix, n the        *)
(* position of the loop of load_matrices in the dict of routes.            *)
(***************************************************************************)
\* The edges of the graph of load_mst that join two different nodes
GraphEdges(dimension) == {e \in SUBSET (0..(dimension - 1)) : Cardinality(e) = 2}

\* add_edge(i, j, weight=...) runs for every ordered pair: the last call for the
\* edge {u, v} is the one with i the larger node, and its weight stays
EdgeWeight(inst, e) ==
    LET u == CHOOSE x \in e : \A y \in e : x <= y
        v == CHOOSE x \in e : \A y \in e : x >= y
    IN  inst.distances[v, u]

\* The nodes joined to the nodes of S by edges of T
RECURSIVE Reach(_, _)
Reach(T, S) ==
    LET more == {x \in UNION T : \E e \in T : x \in e /\ e \cap S # {}} \ S
    IN  IF more = {} THEN S ELSE Reach(T, S \cup more)

SpanningTreesOf(n) ==
    {T \in SUBSET GraphEdges(n) : Cardinality(T) = n - 1 /\ Reach(T, {0}) = 0..(n - 1)}

\* The neighbor stage runs on instances of MaxCustomers nodes
KNDimension == MaxCustomers

SpanningTrees == SpanningTreesOf(KNDimension)

RECURSIVE TreeWeight(_, _)
TreeWeight(inst, T) ==
    IF T = {} THEN 0
    ELSE LET e == CHOOSE x \in T : TRUE
         IN  EdgeWeight(inst, e) + TreeWeight(inst, T \ {e})

\* networkx.minimum_spanning_tree(graph): a spanning tree of least weight (a
\* self-loop is in no tree); which one among equals is the library's choice
minimum_spanning_tree(inst) ==
    LET ws == {TreeWeight(inst, T) : T \in SpanningTrees}
        least == CHOOSE w \in ws : \A x \in ws : w <= x
    IN  {T \in SpanningTrees : TreeWeight(inst, T) = least}

\* The nodes of S as a list, in ascending order
RECURSIVE Ascending(_)
Ascending(S) ==
    IF S = {} THEN <<>>
    ELSE LET m == CHOOSE x \in S : \A y \in S : x <= y
         IN  <<m>> \o Ascending(S \ {m})

SortedByIndex(dimension, weight, neighbors) == Ascending(neighbors)

\* sorted(zip(weights, neighbors)): ascending by weight, then by neighbor
SortedByWeight(dimension, weight, neighbors) ==
    sorted(Ascending(neighbors), [x \in neighbors |-> weight[x] * dimension + x])

\* s[:k] for k >= 0
Take(s, k) == SubSeq(s, 1, IF k < Len(s) THEN k ELSE Len(s))

nearest_neighbors_mst(inst, self, customer) ==
    LET neighbors == {x \in Nodes(inst) : {customer, x} \in self.mst /\ x # customer}
        weight == [x \in neighbors |-> EdgeWeight(inst, {customer, x})]
    IN  Take(SortedByWeight(inst.dimension, weight, neighbors), self.neighbor_number)

nearest_neighbors_mat(inst, self, customer) ==
    LET weight == [x \in Nodes(inst) |-> inst.distances[customer, x]]
        all == SortedByWeight(inst.dimension, weight, Nodes(inst))
    IN  Take(SelectSeq(all, LAMBDA x : x # customer), self.neighbor_number)

\* The loop over nearest_neighbors_mat: append what is new, stop at k neighbors
RECURSIVE AppendMissing(_, _, _)
AppendMissing(neighbors, cand, k) ==
    IF cand = <<>> THEN neighbors
    ELSE LET nb == IF Contains(neighbors, Head(cand)) THEN neighbors
                   ELSE Append(neighbors, Head(cand))
         IN  IF Len(nb) = k THEN nb ELSE AppendMissing(nb, Tail(cand), k)

\* The list nearest_neighbors builds before it returns it or raises
nearest_neighbors(inst, self, customer) ==
    LET neighbors == nearest_neighbors_mst(inst, self, customer)
    IN  IF Len(neighbors) < self.neighbor_number
        THEN AppendMissing(neighbors, nearest_neighbors_mat(inst, self, customer),
                           self.neighbor_number)
        ELSE neighbors

\* nearest_neighbors raises 'Cannot find all neighbors'
NeighborsMissing(inst, self, customer) ==
    Len(nearest_neighbors(inst, self, customer)) < self.neighbor_number

\* matrix[a, b] = matrix[b, a] = distance
MatSetOneWay(matrix, a, b, distance) == [matrix EXCEPT ![a, b] = distance]

MatSet(matrix, a, b, distance) == [matrix EXCEPT ![a, b] = distance, ![b, a] = distance]

\* np.full((dimension, dimension), -1) followed by matrix[i, i] = 0 for every i
EmptyMatrix(inst) == [i \in Nodes(inst), j \in Nodes(inst) |-> IF i = j THEN 0 ELSE -1]

\* for i in range(len(route) - 1): the edge route[i] - route[i + 1], from t on
RECURSIVE SeedEdges(_, _, _, _)
SeedEdges(inst, matrix, route, t) ==
    IF t >= Len(route) THEN matrix
    ELSE SeedEdges(inst,
                   MatSet(matrix, route[t], route[t + 1],
                          inst.distances[route[t], route[t + 1]]),
                   route, t + 1)

\* Every edge of the customer is opened, whatever the list of neighbors
NeighborEdgesWholeRow(inst, matrix, customer, neighbors) ==
    [i \in Nodes(inst), j \in Nodes(inst) |->
        IF i # j /\ (i = customer \/ j = customer) THEN inst.distances[i, j]
        ELSE matrix[i, j]]

\* for neighbor in self.nearest_neighbors(customer)
RECURSIVE NeighborEdges(_, _, _, _)
NeighborEdges(inst, matrix, customer, neighbors) ==
    IF neighbors = <<>> THEN matrix
    ELSE NeighborEdges(inst,
                       MatSet(matrix, customer, Head(neighbors),
                              inst.distances[customer, Head(neighbors)]),
                       customer, Tail(neighbors))

\* for customer in route, from position t on
RECURSIVE CustomerEdges(_, _, _, _, _)
CustomerEdges(inst, self, matrix, route, t) ==
    IF t > Len(route) THEN matrix
    ELSE CustomerEdges(inst, self,
                       NeighborEdges(inst, matrix, route[t],
                                     nearest_neighbors(inst, self, route[t])),
                       route, t + 1)

\* The matrix one iteration of load_matrices builds for a route
RouteMatrix(inst, self, route) ==
    LET m0 == MatSet(EmptyMatrix(inst), 0, route[1], inst.distances[0, route[1]])
        m1 == SeedEdges(inst, m0, route, 1)
        m2 == MatSet(m1, 0, Last(route), inst.distances[0, Last(route)])
    IN  CustomerEdges(inst, self, m2, route, 1)

KNeighbors_init(neighbor_number, routes) ==
    [neighbor_number |-> neighbor_number, routes |-> routes, mst |-> Idle,
     matrices |-> <<>>, n |-> 1, error |-> Idle]

\* Inputs of the neighbor stage
KNInstances == UnitInstances(KNDimension)

InitKN ==
    /\ cvrp \in KNInstances
    /\ kn \in {KNeighbors_init(k, routes) : k \in 1..KNDimension,
                                             routes \in RouteSetsOf(KNDimension - 1)}
    /\ cw = Idle /\ to = Idle /\ solver = Idle /\ fs = Idle /\ rt = Idle
    /\ pc = "kn_load_mst"

KNeighbors_load_mst ==
    /\ pc = "kn_load_mst"
    /\ \E T \in minimum_spanning_tree(cvrp) : kn' = [kn EXCEPT !.mst = T]
    /\ pc' = "kn_load_matrices"
    /\ UNCHANGED <<rt, cvrp, cw, to, solver, fs>>

\* One iteration of for idx in self.routes: the matrix of the route is stored
KNeighbors_load_matrices ==
    /\ pc = "kn_load_matrices"
    /\ kn.n <= Len(kn.routes)
    /\ LET route == kn.routes[kn.n].val.value
       IN  /\ \A t \in 1..Len(route) : ~NeighborsMissing(cvrp, kn, route[t])
           /\ kn' = [kn EXCEPT
                       !.matrices = DictSet(kn.matrices, kn.routes[kn.n].key,
                                            RouteMatrix(cvrp, kn, route)),
                       !.n = kn.n + 1]
    /\ UNCHANGED <<rt, cvrp, cw, to, solver, fs, pc>>

\* nearest_neighbors raises for a customer of the route: the matrix is dropped
KNeighbors_load_matrices_raise ==
    /\ pc = "kn_load_matrices"
    /\ kn.n <= Len(kn.routes)
    /\ LET route == kn.routes[kn.n].val.value
       IN  \E t \in 1..Len(route) : NeighborsMissing(cvrp, kn, route[t])
    /\ kn' = [kn EXCEPT !.error = "Cannot find all neighbors"]
    /\ pc' = "kn_raised"
    /\ UNCHANGED <<rt, cvrp, cw, to, solver, fs>>

\* return list(kn.matrices.values())
KNeighbors_run_return ==
    /\ pc = "kn_load_matrices"
    /\ kn.n > Len(kn.routes)
    /\ pc' = "kn_done"
    /\ UNCHANGED <<rt, cvrp, cw, to, kn, solver, fs>>

NextKN ==
    \/ KNeighbors_load_mst
    \/ KNeighbors_load_matrices
    \/ KNeighbors_load_matrices_raise
    \/ KNeighbors_run_return

SpecKN == InitKN /\ [][NextKN]_vars

(***************************************************************************)
(* Solver (src/classes/solver.py).  A variable name f't_{i}_{v}',          *)
(* f'c_{i}_{j}_{v}' or f'w_{i}_{j}_{v}' is the tuple of its letter and its *)
(* indices.  The dicts mapping and mapping_inv are never iterated: they    *)
(* are functions.  A constraint, which the code keeps as the string        *)
(* '<factor> [~]x<n> ... <operator> <value> ;', is the record of its       *)
(* terms, operator and value.                                              *)
(***************************************************************************)
\* range(a, b) as a list
range(a, b) == [k \in 1..(IF b > a THEN b - a ELSE 0) |-> a + k - 1]

RECURSIVE Concat(_)
Concat(ss) == IF ss = <<>> THEN <<>> ELSE Head(ss) \o Concat(Tail(ss))

\* The list that "for x in s" builds when each x contributes the list Op(x)
ForEach(s, Op(_)) == Concat([k \in 1..Len(s) |-> Op(s[k])])

t_i_v(i, v) == <<"t", i, v>>

c_i_j_v(i, j, v) == <<"c", i, j, v>>

w_i_j_v(i, j, v) == <<"w", i, j, v>>

Solver_init(matrices) ==
    [matrices |-> matrices, counter |-> 1, mapping |-> <<>>, mapping_inv |-> <<>>,
     constraints |-> <<>>, objectives |-> <<>>, optimum |-> 0, routes |-> <<>>,
     error |-> Idle]

\* A get that leaves the counter as it was
get_without_count(self, variable) ==
    IF variable \in DOMAIN self.mapping THEN self
    ELSE [self EXCEPT !.mapping = (variable :> self.counter) @@ self.mapping,
                      !.mapping_inv = (self.counter :> variable) @@ self.mapping_inv]

\* The solver object after self.get(variable)
get(self, variable) ==
    IF variable \in DOMAIN self.mapping THEN self
    ELSE [self EXCEPT !.mapping = (variable :> self.counter) @@ self.mapping,
                      !.mapping_inv = (self.counter :> variable) @@ self.mapping_inv,
                      !.counter = self.counter + 1]

\* The value self.get(variable) returns
Lit(self, variable) == get(self, variable).mapping[variable]

\* Names a caller may pass to get: t, w and c variables of vehicle 0
GetNames ==
    {t_i_v(i, 0) : i \in 1..(MaxVehicles - 1)}
        \cup {w_i_j_v(0, i, 0) : i \in 1..(MaxVehicles - 1)}
        \cup {c_i_j_v(0, 1, 0)}

\* Any sequence of calls of get on a new Solver object
InitGet ==
    /\ solver = Solver_init(<<>>)
    /\ cvrp = Idle /\ cw = Idle /\ to = Idle /\ kn = Idle /\ fs = Idle /\ rt = Idle
    /\ pc = "solver_get"

\* self.get(variable)
Solver_call_get(variable) ==
    /\ pc = "solver_get"
    /\ solver' = get(solver, variable)
    /\ UNCHANGED <<cvrp, cw, to, kn, fs, rt, pc>>

NextGet == \E variable \in GetNames : Solver_call_get(variable)

SpecGet == InitGet /\ [][NextGet]_vars

\* The solver object after self.get was called on every name of the list, in order:
\* the names not yet mapped take the next literals in the order of their first call
GetAll(self, names) ==
    LET first == {k \in 1..Len(names) :
                    /\ names[k] \notin DOMAIN self.mapping
                    /\ \A m \in 1..(k - 1) : names[m] # names[k]}
        literal == [k \in first |-> self.counter + Cardinality({m \in first : m < k})]
    IN  [self EXCEPT
           !.mapping = [variable \in DOMAIN self.mapping \cup {names[k] : k \in first} |->
                          IF variable \in DOMAIN self.mapping THEN self.mapping[variable]
                          ELSE literal[CHOOSE k \in first : names[k] = variable]],
           !.mapping_inv = [x \in DOMAIN self.mapping_inv \cup {literal[k] : k \in first} |->
                              IF x \in DOMAIN self.mapping_inv THEN self.mapping_inv[x]
                              ELSE names[CHOOSE k \in first : literal[k] = x]],
           !.counter = self.counter + Cardinality(first)]

encode_literal(factor, literal) ==
    [factor |-> factor, neg |-> literal < 0, x |-> Abs(literal)]

\* zip(factors, clause) stops at the shorter list
encode_clause(factors, clause) ==
    [k \in 1..Min(Len(factors), Len(clause)) |-> encode_literal(factors[k], clause[k])]

\* The entry add_constraint appends; factors = <<>> stands for None
add_constraint(factors, clause, operator, value) ==
    [terms |-> encode_clause(IF factors = <<>> THEN [k \in 1..Len(clause) |-> 1]
                             ELSE factors, clause),
     operator |-> operator, value |-> value]

add_constraint_eq(factors, clause, value) == add_constraint(factors, clause, "=", value)

add_constraint_leq(factors, clause, value) == add_constraint(factors, clause, "<=", value)

add_constraint_geq(factors, clause, value) == add_constraint(factors, clause, ">=", value)

\* "Create the variables": the names in the order of their first get
CreatedNames(n, V) ==
    ForEach(range(0, V), LAMBDA v :
      ForEach(range(0, n), LAMBDA i :
        <<t_i_v(i, v)>> \o
        ForEach(range(0, n), LAMBDA j :
          <<c_i_j_v(i, j, v)>> \o (IF i # j THEN <<w_i_j_v(i, j, v)>> ELSE <<>>))))

\* The entry of matrices[v] says the arc is removed
Removed(matrices, v, i, j) ==
    ~(matrices[v + 1][i, j] # 0 /\ matrices[v + 1][i, j] # -1)

\* "Set false the removed customers": the names in the order of their get
RemovedNames(n, matrices) ==
    ForEach(range(0, Len(matrices)), LAMBDA v :
      ForEach(range(0, n), LAMBDA i :
        ForEach(range(0, n), LAMBDA j :
          IF Removed(matrices, v, i, j) THEN <<w_i_j_v(i, j, v)>> ELSE <<>>)))

\* Each vehicle leaves the depot by one customer
LeaveDepot(self, n, V) ==
    ForEach(range(0, V), LAMBDA v :
      <<add_constraint_eq(<<>>,
          ForEach(range(0, n), LAMBDA j :
            IF j # 0 THEN <<Lit(self, w_i_j_v(0, j, v))>> ELSE <<>>), 1)>>)

\* Each vehicle enters the depot by one customer
EnterDepot(self, n, V) ==
    ForEach(range(0, V), LAMBDA v :
      <<add_constraint_eq(<<>>,
          ForEach(range(0, n), LAMBDA i :
            IF i # 0 THEN <<Lit(self, w_i_j_v(i, 0, v))>> ELSE <<>>), 1)>>)

\* A customer leaves only to one customer and by one vehicle
LeaveCustomer(self, n, V) ==
    ForEach(range(1, n), LAMBDA i :
      <<add_constraint_eq(<<>>,
          ForEach(range(0, V), LAMBDA v :
            ForEach(range(0, n), LAMBDA j :
              IF i # j THEN <<Lit(self, w_i_j_v(i, j, v))>> ELSE <<>>)), 1)>>)

\* A customer enters only by one customer and by one vehicle
EnterCustomer(self, n, V) ==
    ForEach(range(1, n), LAMBDA j :
      <<add_constraint_eq(<<>>,
          ForEach(range(0, V), LAMBDA v :
            ForEach(range(0, n), LAMBDA i :
              IF i # j THEN <<Lit(self, w_i_j_v(i, j, v))>> ELSE <<>>)), 1)>>)

\* A vehicle cannot enter and leave the same customer
NoTwoCycle(self, n, V) ==
    ForEach(range(0, n), LAMBDA i :
      ForEach(range(i + 1, n), LAMBDA j :
        ForEach(range(0, V), LAMBDA v :
          <<add_constraint_geq(<<>>, <<-Lit(self, w_i_j_v(i, j, v)),
                                       -Lit(self, w_i_j_v(j, i, v))>>, 1)>>)))

\* If a vehicle leaves a customer and visits another one then both were visited
ArcVisits(self, n, V) ==
    ForEach(range(1, n), LAMBDA i :
      ForEach(range(1, n), LAMBDA j :
        ForEach(range(0, V), LAMBDA v :
          IF i = j THEN <<>>
          ELSE <<add_constraint_geq(<<>>, <<-Lit(self, w_i_j_v(i, j, v)),
                                            Lit(self, t_i_v(i, v))>>, 1),
                 add_constraint_geq(<<>>, <<-Lit(self, w_i_j_v(i, j, v)),
                                            Lit(self, t_i_v(j, v))>>, 1)>>)))

\* A customer is only visited by one vehicle
OneVehicle(self, n, V) ==
    ForEach(range(1, n), LAMBDA i :
      ForEach(range(0, V), LAMBDA v :
        ForEach(range(0, V), LAMBDA l :
          IF v = l THEN <<>>
          ELSE <<add_constraint_geq(<<>>, <<-Lit(self, t_i_v(i, v)),
                                            -Lit(self, t_i_v(i, l))>>, 1)>>)))

\* A vehicle visits a customer before it enters and after it leaves the depot
DepotVisits(self, n, V) ==
    ForEach(range(1, n), LAMBDA ij :
      ForEach(range(0, V), LAMBDA v :
        <<add_constraint_geq(<<>>, <<-Lit(self, w_i_j_v(0, ij, v)),
                                     Lit(self, t_i_v(ij, v))>>, 1),
          add_constraint_geq(<<>>, <<-Lit(self, w_i_j_v(ij, 0, v)),
                                     Lit(self, t_i_v(ij, v))>>, 1)>>))

\* Base path
BasePath(self, n, V) ==
    ForEach(range(0, n), LAMBDA i :
      ForEach(range(0, n), LAMBDA j :
        IF i = j THEN <<>>
        ELSE ForEach(range(0, V), LAMBDA v :
               <<add_constraint_geq(<<>>, <<-Lit(self, w_i_j_v(i, j, v)),
                                            Lit(self, c_i_j_v(i, j, v))>>, 1)>>)))

\* Induction path
InductionPath(self, n, V) ==
    ForEach(range(1, n), LAMBDA i :
      ForEach(range(1, n), LAMBDA j :
        IF i = j THEN <<>>
        ELSE ForEach(range(1, n), LAMBDA k :
               ForEach(range(0, V), LAMBDA v :
                 <<add_constraint_geq(<<>>, <<-Lit(self, w_i_j_v(i, j, v)),
                                              -Lit(self, c_i_j_v(j, k, v)),
                                              Lit(self, c_i_j_v(i, k, v))>>, 1)>>))))

\* There is no path from a customer to the same customer
NoSelfPathNone(self, n, V) == <<>>

NoSelfPath(self, n, V) ==
    ForEach(range(1, n), LAMBDA i :
      <<add_constraint_eq(<<>>,
          ForEach(range(0, V), LAMBDA v : <<Lit(self, c_i_j_v(i, i, v))>>), 0)>>)

\* Capacity constraint
Capacity(inst, self, V) ==
    LET neg_demands == [k \in 1..inst.dimension |-> -inst.demands[k - 1]]
    IN  ForEach(range(0, V), LAMBDA v :
          <<add_constraint_geq(neg_demands,
              ForEach(range(0, inst.dimension), LAMBDA i : <<Lit(self, t_i_v(i, v))>>),
              -inst.capacity)>>)

\* Set the weights
Weights(inst, self, V) ==
    ForEach(range(0, V), LAMBDA v :
      ForEach(range(0, inst.dimension), LAMBDA i :
        ForEach(range(0, inst.dimension), LAMBDA j :
          IF i = j THEN <<>>
          ELSE <<encode_literal(inst.distances[i, j], Lit(self, w_i_j_v(i, j, v)))>>)))

\* Set false the removed customers
RemovedArcs(self, n, matrices) ==
    ForEach(range(0, Len(matrices)), LAMBDA v :
      ForEach(range(0, n), LAMBDA i :
        ForEach(range(0, n), LAMBDA j :
          IF Removed(matrices, v, i, j)
          THEN <<add_constraint_eq(<<>>, <<Lit(self, w_i_j_v(i, j, v))>>, 0)>>
          ELSE <<>>)))

\* The solver object after load_model
load_model(inst, self) ==
    LET n == inst.dimension
        V == Len(self.matrices)
        s == GetAll(GetAll(self, CreatedNames(n, V)), RemovedNames(n, self.matrices))
    IN  [s EXCEPT
           !.constraints = self.constraints
               \o LeaveDepot(s, n, V) \o EnterDepot(s, n, V)
               \o LeaveCustomer(s, n, V) \o EnterCustomer(s, n, V)
               \o NoTwoCycle(s, n, V) \o ArcVisits(s, n, V) \o OneVehicle(s, n, V)
               \o DepotVisits(s, n, V) \o BasePath(s, n, V) \o InductionPath(s, n, V)
               \o NoSelfPath(s, n, V) \o Capacity(inst, s, V)
               \o RemovedArcs(s, n, self.matrices),
           !.objectives = self.objectives \o Weights(inst, s, V)]

\* encode(): the content of the model file
encode(self) ==
    [variable |-> self.counter - 1, constraint |-> Len(self.constraints),
     min |-> self.objectives, constraints |-> self.constraints]

(***************************************************************************)
(* The pseudo-Boolean solver that system() runs on the model file.  An     *)
(* assignment is the set of the variables x<n> that are true.              *)
(***************************************************************************)
TermValue(term, a) == term.factor * (IF (term.x \in a) = (~term.neg) THEN 1 ELSE 0)

RECURSIVE TermSum(_, _)
TermSum(terms, a) ==
    IF terms = <<>> THEN 0 ELSE TermValue(Head(terms), a) + TermSum(Tail(terms), a)

\* The assignment satisfies the constraint
Holds(con, a) ==
    LET s == TermSum(con.terms, a)
    IN  CASE con.operator = "="  -> s = con.value
          [] con.operator = "<=" -> s <= con.value
          [] con.operator = ">=" -> s >= con.value

Satisfies(model, a) == \A k \in 1..Len(model.constraints) : Holds(model.constraints[k], a)

\* The arcs of the permutation p, with every choice of a vehicle for the arcs between
\* two customers
Labelled(p, Cust, Veh) ==
    LET inner == {c \in Cust : p[c] > 0}
    IN  { {<<0, p[-v], v>> : v \in Veh}
            \cup {<<c, p[c], lab[c]>> : c \in inner}
            \cup {<<c, 0, -p[c]>> : c \in Cust \ inner} : lab \in [inner -> Veh] }

\* The sets of arcs <<i, j, v>> in which every customer has one arc out and one arc
\* in and every vehicle has one arc out of the depot and one arc into it, as the
\* first four blocks of constraints require: the permutations of the customers and
\* one copy of the depot per vehicle (the copy of vehicle v is -v), with a vehicle
\* for every arc between two customers.
ArcSets(n, V) ==
    LET Cust == 1..(n - 1)
        Veh == 0..(V - 1)
        E == Cust \cup {-v : v \in Veh}
        succ == {p \in Permutations(E) :
                    /\ \A c \in Cust : p[c] # c
                    /\ \A v \in Veh : p[-v] > 0}
    IN  UNION {Labelled(p, Cust, Veh) : p \in succ}

\* The constraints all of whose variables are among the variables xs
Over(model, xs) ==
    SelectSeq(model.constraints,
              LAMBDA con : \A k \in 1..Len(con.terms) : con.terms[k].x \in xs)

\* The clauses (sums of literals >= 1) with one positive literal, on a variable
\* outside fixed: <<the variables of the negative literals, the positive one>>
Clauses(model, fixed) ==
    LET pos(con) == {k \in 1..Len(con.terms) : ~con.terms[k].neg}
        clause(con) ==
            /\ con.operator = ">=" /\ con.value = 1
            /\ \A k \in 1..Len(con.terms) : con.terms[k].factor = 1
            /\ Cardinality(pos(con)) = 1
            /\ \A k \in pos(con) : con.terms[k].x \notin fixed
    IN  {<<{con.terms[k].x : k \in (1..Len(con.terms)) \ pos(con)},
           CHOOSE x \in {con.terms[k].x : k \in pos(con)} : TRUE>> :
            con \in {c \in Range(model.constraints) : clause(c)}}

\* The least assignment above a that the clauses force: a clause whose negative
\* literals are all false forces its positive literal
RECURSIVE Propagate(_, _)
Propagate(clauses, a) ==
    LET more == {cl[2] : cl \in {c \in clauses : c[1] \subseteq a}}
    IN  IF more \subseteq a THEN a ELSE Propagate(clauses, a \cup more)

\* The satisfying assignments of the model: an assignment of the arc variables
\* extends to one exactly if the least values of the other variables that the
\* clauses force extend it (every other constraint on them only bounds them from
\* above); beside the least extension, the one with the depot's t and c true.
Models(self, model, n, V) ==
    LET Veh == 0..(V - 1)
        ws == {Lit(self, w_i_j_v(ij[1], ij[2], v)) :
                 ij \in {x \in (0..(n - 1)) \X (0..(n - 1)) : x[1] # x[2]}, v \in Veh}
        depot == {Lit(self, t_i_v(0, v)) : v \in Veh}
                    \cup {Lit(self, c_i_j_v(0, 0, v)) : v \in Veh}
        arcsOnly == [constraints |-> Over(model, ws)]
        arcs == {a \in {{Lit(self, w_i_j_v(x[1], x[2], x[3])) : x \in A} : A \in ArcSets(n, V)} :
                    Satisfies(arcsOnly, a)}
        clauses == Clauses(model, ws)
        least == {Propagate(clauses, a) : a \in arcs}
    IN  {a \in least \cup {b \cup depot : b \in least} : Satisfies(model, a)}

Objective(model, a) == TermSum(model.min, a)

Optimal(model, models) ==
    {a \in models : \A b \in models : Objective(model, a) <= Objective(model, b)}

(***************************************************************************)
(* The output file: a list of lines.  A line is its first character, and   *)
(* what follows it: the text of an 's' line, the number of an 'o' line,    *)
(* the signed variable numbers of a 'v' line.                              *)
(***************************************************************************)
Line(kind, text, value, lits) == [kind |-> kind, text |-> text, value |-> value, lits |-> lits]

s_line(text) == Line("s", text, 0, <<>>)

o_line(value) == Line("o", "", value, <<>>)

\* 'v x1 -x2 ...': every variable of the model, negated when it is false
v_line(model, a) == Line("v", "", 0, [x \in 1..model.variable |-> IF x \in a THEN x ELSE -x])

\* The v line without its k-th literal
v_line_without(model, a, k) ==
    Line("v", "", 0, [x \in 1..(model.variable - 1) |->
                         LET y == IF x < k THEN x ELSE x + 1
                         IN  IF y \in a THEN y ELSE -y])

Missing == "missing"   \* the content of a file that does not exist

\* except: raise Exception('Cannot solve the model')
SolveFailed == "Cannot solve the model"

\* What running the solver on the model file leaves: the exit status and output.txt
\* (the shell creates output.txt before it starts the solver, or fails to start it)
SystemOutcomes(self, model, n, V) ==
    LET models == Models(self, model, n, V)
        best == Optimal(model, models)
        answer(a, text) == <<o_line(Objective(model, a)), s_line(text), v_line(model, a)>>
    IN  \* the solver proves unsatisfiability, or finds an optimum
        (IF models = {} THEN {[status |-> 0, lines |-> <<s_line("UNSATISFIABLE")>>]}
         ELSE {[status |-> 0, lines |-> answer(a, "OPTIMUM FOUND")] : a \in best})
        \* the time budget ends with a solution that is not known to be optimal
        \cup {[status |-> 0, lines |-> answer(a, "SATISFIABLE")] : a \in models}
        \* the solver is killed after it printed an objective value
        \cup {[status |-> 1, lines |-> <<o_line(Objective(model, a))>>] : a \in best}
        \* the value line lacks one arc that is true
        \cup UNION {{[status |-> 0,
                      lines |-> <<o_line(Objective(model, a)), s_line("OPTIMUM FOUND"),
                                  v_line_without(model, a, k)>>] :
                       k \in {x \in a : self.mapping_inv[x][1] = "w"}} : a \in best}
        \* the command cannot be started: the shell leaves output.txt empty
        \cup {[status |-> 127, lines |-> <<>>]}

\* decode(output), line by line: the solver object, and whether decode raised
RECURSIVE DecodeLines(_, _, _)
DecodeLines(self, output, model) ==
    IF output = <<>> THEN [self |-> self, model |-> model, raised |-> FALSE]
    ELSE LET line == Head(output)
         IN  IF line.kind = "s" /\ line.text = "UNSATISFIABLE"
             THEN [self |-> self, model |-> model, raised |-> TRUE]
             ELSE DecodeLines(IF line.kind = "o" THEN [self EXCEPT !.optimum = line.value]
                              ELSE self,
                              Tail(output),
                              IF line.kind = "v" THEN model \o line.lits ELSE model)

\* A selection that keeps every known name, whatever its letter
SelectedNames(self, model) ==
    LET items == SelectSeq(model, LAMBDA item : item \in DOMAIN self.mapping_inv)
    IN  [k \in 1..Len(items) |-> self.mapping_inv[items[k]]]

\* for item in model: the names appended to self.routes
SelectedArcs(self, model) ==
    LET items == SelectSeq(model, LAMBDA item :
                     IF item \notin DOMAIN self.mapping_inv THEN FALSE
                     ELSE self.mapping_inv[item][1] = "w")
    IN  [k \in 1..Len(items) |-> self.mapping_inv[items[k]]]

decode(self, output) ==
    LET d == DecodeLines(self, output, <<>>)
    IN  IF d.raised THEN [self |-> d.self, raised |-> TRUE]
        ELSE [self |-> [d.self EXCEPT !.routes = d.self.routes \o SelectedArcs(d.self, d.model)],
              raised |-> FALSE]

(***************************************************************************)
(* Solver.run: load_model, then solve step by step (the model file is      *)
(* written, system() runs the solver, the output file is read and decoded, *)
(* the two files are removed; any exception becomes 'Cannot solve the      *)
(* model').  fs is the working directory: the files that exist in it, the  *)
(* content of input.txt and of output.txt, the exit status of the command, *)
(* and whether files can be created in it.                                 *)
(***************************************************************************)
\* Instances whose nodes lie on a ring, at distance 1 from their neighbors
RingInstance(n, capacity, first) ==
    [dimension |-> n, capacity |-> capacity,
     demands |-> [c \in 0..(n - 1) |-> IF c = 0 THEN 0 ELSE IF c = 1 THEN first ELSE 1],
     distances |-> [i \in 0..(n - 1), j \in 0..(n - 1) |->
                      Min(Abs(i - j), n - Abs(i - j))]]

\* Matrices as KNeighbors builds them: the distance where the edge is kept, else -1
FullMatrix(inst) ==
    [i \in Nodes(inst), j \in Nodes(inst) |-> inst.distances[i, j]]

\* The depot's edges and the edges of length <= 1 are kept
NearMatrix(inst) ==
    [i \in Nodes(inst), j \in Nodes(inst) |->
        IF i = 0 \/ j = 0 \/ inst.distances[i, j] <= 1 THEN inst.distances[i, j] ELSE -1]

\* The inputs of Solver.run: one vehicle and MaxCustomers + 1 customers, or two
\* vehicles and MaxCustomers customers; the capacity is what an even split of unit
\* demands needs, or one more; the first customer's demand is 1 or 2
SolverCasesOf(n, V, capacity, first) ==
    LET inst == RingInstance(n, capacity, first)
    IN  {[cvrp |-> inst, matrices |-> [v \in 1..V |-> m]] :
            m \in {FullMatrix(inst), NearMatrix(inst)}}

SolverCases ==
    UNION {SolverCasesOf(MaxCustomers + 3 - V, V, (MaxCustomers + 1) \div V + more, first) :
             V \in 1..2, more \in 0..1, first \in 1..2}

InitSolver ==
    /\ \E case \in SolverCases : cvrp = case.cvrp /\ solver = Solver_init(case.matrices)
    /\ fs \in {[files |-> {}, input_txt |-> Missing, output_txt |-> Missing, status |-> 0,
                writable |-> wr] : wr \in BOOLEAN}
    /\ cw = Idle /\ to = Idle /\ kn = Idle /\ rt = Idle
    /\ pc = "solver_load_model"

Solver_load_model ==
    /\ pc = "solver_load_model"
    /\ solver' = load_model(cvrp, solver)
    /\ pc' = "solve_write"
    /\ UNCHANGED <<rt, cvrp, cw, to, kn, fs>>

\* with open('input.txt', 'w+') as input_file: input_file.write(self.encode())
Solver_solve_write ==
    /\ pc = "solve_write"
    /\ fs.writable
    /\ fs' = [fs EXCEPT !.files = fs.files \cup {"input.txt"},
                        !.input_txt = encode(solver)]
    /\ pc' = "solve_system"
    /\ UNCHANGED <<rt, cvrp, cw, to, kn, solver>>

\* open raises: except: raise Exception('Cannot solve the model')
Solver_solve_write_raise ==
    /\ pc = "solve_write"
    /\ ~fs.writable
    /\ solver' = [solver EXCEPT !.error = SolveFailed]
    /\ pc' = "solver_raised"
    /\ UNCHANGED <<rt, cvrp, cw, to, kn, fs>>

\* system(f'{self.solver_name} input.txt > output.txt'): the return value is dropped
Solver_solve_system ==
    /\ pc = "solve_system"
    /\ \E out \in SystemOutcomes(solver, fs.input_txt, cvrp.dimension, Len(solver.matrices)) :
          fs' = [fs EXCEPT !.files = fs.files \cup {"output.txt"},
                           !.output_txt = out.lines, !.status = out.status]
    /\ pc' = "solve_read"
    /\ UNCHANGED <<rt, cvrp, cw, to, kn, solver>>

\* with open('output.txt', 'r') as output_file: self.decode(output_file.readlines())
Solver_solve_decode ==
    /\ pc = "solve_read"
    /\ ~decode(solver, fs.output_txt).raised
    /\ solver' = decode(solver, fs.output_txt).self
    /\ pc' = "solve_remove_input"
    /\ UNCHANGED <<rt, cvrp, cw, to, kn, fs>>

\* decode raises 'The model is unsatisfiable': except: raise Exception('Cannot solve the model')
Solver_solve_decode_raise ==
    /\ pc = "solve_read"
    /\ decode(solver, fs.output_txt).raised
    /\ solver' = [decode(solver, fs.output_txt).self EXCEPT !.error = SolveFailed]
    /\ pc' = "solver_raised"
    /\ UNCHANGED <<rt, cvrp, cw, to, kn, fs>>

\* remove('input.txt')
Solver_solve_remove_input ==
    /\ pc = "solve_remove_input"
    /\ fs' = [fs EXCEPT !.files = fs.files \ {"input.txt"}, !.input_txt = Missing]
    /\ pc' = "solve_remove_output"
    /\ UNCHANGED <<rt, cvrp, cw, to, kn, solver>>

\* remove('output.txt')
Solver_solve_remove_output ==
    /\ pc = "solve_remove_output"
    /\ fs' = [fs EXCEPT !.files = fs.files \ {"output.txt"}, !.output_txt = Missing]
    /\ pc' = "solver_return"
    /\ UNCHANGED <<rt, cvrp, cw, to, kn, solver>>

\* return solver.optimum, solver.routes
Solver_run_return ==
    /\ pc = "solver_return"
    /\ pc' = "solver_done"
    /\ UNCHANGED <<rt, cvrp, cw, to, kn, solver, fs>>

NextSolver ==
    \/ Solver_load_model
    \/ Solver_solve_write
    \/ Solver_solve_write_raise
    \/ Solver_solve_system
    \/ Solver_solve_decode
    \/ Solver_solve_decode_raise
    \/ Solver_solve_remove_input
    \/ Solver_solve_remove_output
    \/ Solver_run_return

SpecSolver == InitSolver /\ [][NextSolver]_vars

(***************************************************************************)
(* decode on any output: the solver object knows four names, the literals  *)
(* 1..4, and output.txt holds up to MaxLines lines of any kind.            *)
(***************************************************************************)
MaxLines == 4

\* t_1_0 = 1, w_0_1_0 = 2, c_0_1_0 = 3, w_1_0_0 = 4
DecodeSolver ==
    GetAll(Solver_init(<<>>),
           <<t_i_v(1, 0), w_i_j_v(0, 1, 0), c_i_j_v(0, 1, 0), w_i_j_v(1, 0, 0)>>)

\* Lines a solver may print: comments, status lines, objective values, and value
\* lines with true and false literals of w, t and c variables and of a variable the
\* object does not know (5)
DecodeAlphabet ==
    {Line("c", "", 0, <<>>), s_line("OPTIMUM FOUND"), s_line("UNSATISFIABLE"),
     o_line(1), o_line(2),
     Line("v", "", 0, <<1, 2, -4>>), Line("v", "", 0, <<-2, 3, 4, 5>>),
     Line("v", "", 0, <<-1, -3, 4>>), Line("v", "", 0, <<2, -5>>)}

DecodeOutputs == UNION {[1..len -> DecodeAlphabet] : len \in 0..MaxLines}

InitDecode ==
    /\ solver = DecodeSolver
    /\ fs \in {[files |-> {"input.txt", "output.txt"}, input_txt |-> Missing,
                 output_txt |-> out, status |-> 0, writable |-> TRUE] : out \in DecodeOutputs}
    /\ cvrp = Idle /\ cw = Idle /\ to = Idle /\ kn = Idle /\ rt = Idle
    /\ pc = "solve_read"

NextDecode ==
    \/ Solver_solve_decode
    \/ Solver_solve_decode_raise

SpecDecode == InitDecode /\ [][NextDecode]_vars

(***************************************************************************)
(* Two runs of Solver.run in one working directory (two processes of       *)
(* src/run.py).  cvrp, solver and pc are pairs, one component per process; *)
(* fs is the directory both use.  fs.command_input is the content of       *)
(* input.txt that the last solver command read.  A file that does not      *)
(* exist makes open and remove raise, and the solver command print         *)
(* nothing.                                                                *)
(***************************************************************************)
Procs == 1..2

\* The inputs of a run: one vehicle on a ring of KNDimension nodes
ConcurrentCases(first) == SolverCasesOf(KNDimension, 1, KNDimension - 1, first)

InitConcurrent ==
    /\ \E c1 \in ConcurrentCases(1), c2 \in ConcurrentCases(2) :
          /\ cvrp = <<c1.cvrp, c2.cvrp>>
          /\ solver = <<Solver_init(c1.matrices), Solver_init(c2.matrices)>>
    /\ fs = [files |-> {}, input_txt |-> Missing, output_txt |-> Missing, status |-> 0,
             writable |-> TRUE, command_input |-> Missing]
    /\ cw = Idle /\ to = Idle /\ kn = Idle /\ rt = Idle
    /\ pc = <<"solver_load_model", "solver_load_model">>

\* solver.load_model() in process p
Concurrent_load_model(p) ==
    /\ pc[p] = "solver_load_model"
    /\ solver' = [solver EXCEPT ![p] = load_model(cvrp[p], solver[p])]
    /\ pc' = [pc EXCEPT ![p] = "solve_write"]
    /\ UNCHANGED <<rt, cvrp, cw, to, kn, fs>>

\* open('input.txt', 'w+') creates or truncates the file of that name
Concurrent_solve_write(p) ==
    /\ pc[p] = "solve_write"
    /\ fs' = [fs EXCEPT !.files = fs.files \cup {"input.txt"},
                        !.input_txt = encode(solver[p])]
    /\ pc' = [pc EXCEPT ![p] = "solve_system"]
    /\ UNCHANGED <<rt, cvrp, cw, to, kn, solver>>

\* system(...): the command reads the input.txt that is there and writes output.txt
Concurrent_solve_system(p) ==
    /\ pc[p] = "solve_system"
    /\ IF "input.txt" \in fs.files
       THEN \E out \in SystemOutcomes(solver[p], fs.input_txt, cvrp[p].dimension,
                                      Len(solver[p].matrices)) :
               fs' = [fs EXCEPT !.files = fs.files \cup {"output.txt"},
                                !.output_txt = out.lines, !.status = out.status,
                                !.command_input = fs.input_txt]
       ELSE fs' = [fs EXCEPT !.files = fs.files \cup {"output.txt"},
                             !.output_txt = <<>>, !.status = 1,
                             !.command_input = Missing]
    /\ pc' = [pc EXCEPT ![p] = "solve_read"]
    /\ UNCHANGED <<rt, cvrp, cw, to, kn, solver>>

\* open('output.txt', 'r') and decode of the lines that are in the file
Concurrent_solve_decode(p) ==
    /\ pc[p] = "solve_read"
    /\ "output.txt" \in fs.files
    /\ ~decode(solver[p], fs.output_txt).raised
    /\ solver' = [solver EXCEPT ![p] = decode(solver[p], fs.output_txt).self]
    /\ pc' = [pc EXCEPT ![p] = "solve_remove_input"]
    /\ UNCHANGED <<rt, cvrp, cw, to, kn, fs>>

\* open or decode raises: except: raise Exception('Cannot solve the model')
Concurrent_solve_decode_raise(p) ==
    /\ pc[p] = "solve_read"
    /\ IF "output.txt" \in fs.files THEN decode(solver[p], fs.output_txt).raised ELSE TRUE
    /\ solver' = [solver EXCEPT ![p].error = SolveFailed]
    /\ pc' = [pc EXCEPT ![p] = "solver_raised"]
    /\ UNCHANGED <<rt, cvrp, cw, to, kn, fs>>

\* remove('input.txt')
Concurrent_solve_remove_input(p) ==
    /\ pc[p] = "solve_remove_input"
    /\ "input.txt" \in fs.files
    /\ fs' = [fs EXCEPT !.files = fs.files \ {"input.txt"}, !.input_txt = Missing]
    /\ pc' = [pc EXCEPT ![p] = "solve_remove_output"]
    /\ UNCHANGED <<rt, cvrp, cw, to, kn, solver>>

\* remove('output.txt')
Concurrent_solve_remove_output(p) ==
    /\ pc[p] = "solve_remove_output"
    /\ "output.txt" \in fs.files
    /\ fs' = [fs EXCEPT !.files = fs.files \ {"output.txt"}, !.output_txt = Missing]
    /\ pc' = [pc EXCEPT ![p] = "solver_return"]
    /\ UNCHANGED <<rt, cvrp, cw, to, kn, solver>>

\* remove raises FileNotFoundError: except: raise Exception('Cannot solve the model')
Concurrent_solve_remove_raise(p) ==
    /\ \/ pc[p] = "solve_remove_input" /\ "input.txt" \notin fs.files
       \/ pc[p] = "solve_remove_output" /\ "output.txt" \notin fs.files
    /\ solver' = [solver EXCEPT ![p].error = SolveFailed]
    /\ pc' = [pc EXCEPT ![p] = "solver_raised"]
    /\ UNCHANGED <<rt, cvrp, cw, to, kn, fs>>

\* return solver.optimum, solver.routes
Concurrent_run_return(p) ==
    /\ pc[p] = "solver_return"
    /\ pc' = [pc EXCEPT ![p] = "solver_done"]
    /\ UNCHANGED <<rt, cvrp, cw, to, kn, solver, fs>>

NextConcurrent ==
    \E p \in Procs :
        \/ Concurrent_load_model(p)
        \/ Concurrent_solve_write(p)
        \/ Concurrent_solve_system(p)
        \/ Concurrent_solve_decode(p)
        \/ Concurrent_solve_decode_raise(p)
        \/ Concurrent_solve_remove_input(p)
        \/ Concurrent_solve_remove_output(p)
        \/ Concurrent_solve_remove_raise(p)
        \/ Concurrent_run_return(p)

SpecConcurrent == InitConcurrent /\ [][NextConcurrent]_vars

(***************************************************************************)
(* The pipeline of src/run.py: ClarkeWright.run, TwoOpt.run,               *)
(* KNeighbors.run and Solver.run on one instance, each stage taking the    *)
(* result of the stage before it.                                          *)
(***************************************************************************)
\* cvrp = Instance(argv[1]).load(); ClarkeWright.run(cvrp, int(argv[2]))
RunInstances == InstancesOf(KNDimension) \cup OneTwoInstances(KNDimension)

InitRun ==
    /\ cvrp \in RunInstances
    /\ cw \in {ClarkeWright_init(K) : K \in 1..(MaxVehicles - 1)}
    /\ fs \in {[files |-> {}, input_txt |-> Missing, output_txt |-> Missing, status |-> 0,
                writable |-> wr] : wr \in BOOLEAN}
    /\ to = Idle /\ kn = Idle /\ solver = Idle /\ rt = Idle
    /\ pc = "load_savings"

\* to_time, routes = TwoOpt.run(routes)
Run_TwoOpt ==
    /\ pc = "cw_done"
    /\ to' = TwoOpt_init(cw.routes)
    /\ pc' = "to_for"
    /\ UNCHANGED <<rt, cvrp, cw, kn, solver, fs>>

\* _, matrices = KNeighbors.run(cvrp, int(argv[3]), routes)
Run_KNeighbors ==
    /\ pc = "to_done"
    /\ \E k \in 1..KNDimension : kn' = KNeighbors_init(k, to.routes)
    /\ pc' = "kn_load_mst"
    /\ UNCHANGED <<rt, cvrp, cw, to, solver, fs>>

\* Solver.run(cvrp, matrices), matrices = list(self.matrices.values())
Run_Solver ==
    /\ pc = "kn_done"
    /\ solver' = Solver_init([v \in 1..Len(kn.matrices) |-> kn.matrices[v].val])
    /\ pc' = "solver_load_model"
    /\ UNCHANGED <<rt, cvrp, cw, to, kn, fs>>

NextRun ==
    \/ NextCW
    \/ Run_TwoOpt
    \/ NextTwoOpt
    \/ Run_KNeighbors
    \/ NextKN
    \/ Run_Solver
    \/ NextSolver

SpecRun == InitRun /\ [][NextRun]_vars

(***************************************************************************)
(* Properties of ClarkeWright.run, checked under SpecCW.                   *)
(***************************************************************************)
\* How often customer c occurs in the routes of a dict
Occurrences(routes, c) ==
    Cardinality({km \in (1..Len(routes)) \X (1..MaxCustomers + 1) :
                    /\ km[2] <= Len(routes[km[1]].val.value)
                    /\ routes[km[1]].val.value[km[2]] = c})

\* Every customer is in exactly one route, once
IsPartition(inst, routes) == \A c \in Customers(inst) : Occurrences(routes, c) = 1

\* Every route's demand, recomputed and as the property returns it, is within capacity
WithinCapacity(inst, routes) ==
    \A k \in 1..Len(routes) :
        /\ calculate_demand(inst, routes[k].val.value) <= inst.capacity
        /\ Route_demand(inst, routes[k].val) <= inst.capacity

InTwoOpt == pc \in {"to_for", "to_while", "to_scan", "to_done"}

\* Route r holds the customers of route e, each once, at a cost not above e's
SameCustomersNoWorse(inst, r, e) ==
    /\ Len(r.value) = Len(e.value)
    /\ Range(r.value) = Range(e.value)
    /\ calculate_demand(inst, r.value) = calculate_demand(inst, e.value)
    /\ Route_demand(inst, r) = calculate_demand(inst, e.value)
    /\ calculate_cost(inst, r.value) <= calculate_cost(inst, e.value)
    /\ Route_cost(inst, r) <= calculate_cost(inst, e.value)

\* C2: at every step of improve_routes each route (the stored ones, the route being
\* scanned and the best candidate so far) holds the customers it held on entry, so
\* its demand is unchanged, and its cost is not above its cost on entry.
C2_SameCustomersNoWorse ==
    InTwoOpt =>
        /\ DictKeys(to.routes) = DictKeys(to.entry)
        /\ \A k \in 1..Len(to.routes) :
              SameCustomersNoWorse(cvrp, to.routes[k].val, to.entry[k].val)
        /\ pc \in {"to_while", "to_scan"} =>
              /\ SameCustomersNoWorse(cvrp, to.route, DictGet(to.entry, to.idx))
              /\ SameCustomersNoWorse(cvrp, to.best_route, DictGet(to.entry, to.idx))

\* C2 witness: improve_routes ended and stored a reordered, strictly cheaper route
C2_Witness ==
    /\ pc = "to_done"
    /\ \E k \in 1..Len(to.routes) :
          /\ to.routes[k].val.value # to.entry[k].val.value
          /\ calculate_cost(cvrp, to.routes[k].val.value)
                < calculate_cost(cvrp, to.entry[k].val.value)

\* Reversing the closed interval value[i..j] (Python indices) does not reduce the cost
TwoOptLocallyOptimal(inst, value) ==
    \A i \in 0..(Len(value) - 1) : \A j \in 0..(Len(value) - 1) :
        i < j => calculate_cost(inst, ReverseSlice(value, i, j + 1))
                    >= calculate_cost(inst, value)

\* C3: when improve_routes ends, every route is 2-opt locally optimal: no reversal of
\* a closed interval r[i..j], 0 <= i < j < |r|, has a lower cost.
C3_LocallyOptimal ==
    pc = "to_done" =>
        \A k \in 1..Len(to.routes) : TwoOptLocallyOptimal(cvrp, to.routes[k].val.value)

\* C3 witness: improve_routes ended on a route of all customers that was not locally
\* optimal on entry
C3_Witness ==
    /\ pc = "to_done"
    /\ \E k \in 1..Len(to.routes) :
          /\ Len(to.routes[k].val.value) = MaxCustomers
          /\ ~TwoOptLocallyOptimal(cvrp, to.entry[k].val.value)

(***************************************************************************)
(* Properties of KNeighbors.load_matrices, checked under SpecKN.           *)
(***************************************************************************)
\* The off-diagonal entries of row c that are >= 0
OpenEntries(inst, matrix, c) == {j \in Nodes(inst) : j # c /\ matrix[c, j] >= 0}

InKN == pc \in {"kn_load_mst", "kn_load_matrices", "kn_raised", "kn_done"}

MatrixWellFormed(inst, k, route, matrix) ==
    /\ \A i \in Nodes(inst) : matrix[i, i] = 0
    /\ \A i, j \in Nodes(inst) : matrix[i, j] = matrix[j, i]
    /\ \A t \in 1..(Len(route) - 1) :
          matrix[route[t], route[t + 1]] = inst.distances[route[t], route[t + 1]]
    /\ matrix[0, route[1]] = inst.distances[0, route[1]]
    /\ matrix[Last(route), 0] = inst.distances[Last(route), 0]
    /\ \A t \in 1..Len(route) :
          Cardinality(OpenEntries(inst, matrix, route[t])) >= Min(k, inst.dimension - 1)

\* C4: every matrix that load_matrices has stored for a route has a zero diagonal,
\* is symmetric, carries the distance on the route's consecutive pairs and on the
\* depot edges of its two ends, and every customer of the route has at least
\* min(k, n-1) off-diagonal entries >= 0 in its row.
C4_MatricesWellFormed ==
    InKN =>
        \A m \in 1..Len(kn.matrices) :
            MatrixWellFormed(cvrp, kn.neighbor_number,
                             DictGet(kn.routes, kn.matrices[m].key).value,
                             kn.matrices[m].val)

\* Both matrices are stored, some customer needed the fallback to the distance
\* matrix row, and some edge is forbidden
C4_Witness ==
    /\ pc = "kn_done"
    /\ Len(kn.matrices) = 2
    /\ kn.neighbor_number >= 2
    /\ \E c \in Customers(cvrp) :
          Len(nearest_neighbors_mst(cvrp, kn, c)) < kn.neighbor_number
    /\ \E m \in 1..Len(kn.matrices) : \E i, j \in Nodes(cvrp) : kn.matrices[m].val[i, j] = -1

(***************************************************************************)
(* Properties of Solver.load_model, solve and decode, under SpecSolver.    *)
(***************************************************************************)
\* The variables that the value lines of the output file give as true
TrueInOutput(output) ==
    UNION {{output[k].lits[m] : m \in {x \in 1..Len(output[k].lits) : output[k].lits[x] > 0}} :
             k \in {x \in 1..Len(output) : output[x].kind = "v"}}

HasLine(output, kind) == \E k \in 1..Len(output) : output[k].kind = kind

\* The arcs <<i, j>> of vehicle v among the variables of a
ArcsOf(self, n, v, a) ==
    {ij \in (0..(n - 1)) \X (0..(n - 1)) :
        /\ w_i_j_v(ij[1], ij[2], v) \in DOMAIN self.mapping
        /\ self.mapping[w_i_j_v(ij[1], ij[2], v)] \in a}

\* The nodes that the arcs reach from the nodes of S
RECURSIVE Reached(_, _)
Reached(arcs, S) ==
    LET more == {ij[2] : ij \in {x \in arcs : x[1] \in S}} \ S
    IN  IF more = {} THEN S ELSE Reached(arcs, S \cup more)

\* The arcs are one simple cycle through the depot
SimpleDepotCycle(arcs) ==
    LET nodes == {ij[1] : ij \in arcs} \cup {ij[2] : ij \in arcs}
    IN  /\ 0 \in nodes
        /\ \A ij \in arcs : ij[1] # ij[2]
        /\ \A x \in nodes : /\ Cardinality({ij \in arcs : ij[1] = x}) = 1
                            /\ Cardinality({ij \in arcs : ij[2] = x}) = 1
        /\ Reached(arcs, {0}) = nodes

CycleCustomers(arcs) == ({ij[1] : ij \in arcs} \cup {ij[2] : ij \in arcs}) \ {0}

RECURSIVE SetDemand(_, _)
SetDemand(inst, S) ==
    IF S = {} THEN 0
    ELSE LET c == CHOOSE x \in S : TRUE IN inst.demands[c] + SetDemand(inst, S \ {c})

\* The arcs of a are V simple depot cycles whose customers partition the customers,
\* each within capacity
IsRouting(inst, self, a) ==
    LET V == Len(self.matrices)
        arcs == [v \in 0..(V - 1) |-> ArcsOf(self, inst.dimension, v, a)]
    IN  /\ \A v \in 0..(V - 1) :
              /\ SimpleDepotCycle(arcs[v])
              /\ SetDemand(inst, CycleCustomers(arcs[v])) <= inst.capacity
        /\ \A v, l \in 0..(V - 1) :
              v # l => CycleCustomers(arcs[v]) \cap CycleCustomers(arcs[l]) = {}
        /\ UNION {CycleCustomers(arcs[v]) : v \in 0..(V - 1)} = Customers(inst)

OutputSatisfies ==
    /\ pc = "solve_read"
    /\ HasLine(fs.output_txt, "v")
    /\ Satisfies([constraints |-> solver.constraints], TrueInOutput(fs.output_txt))

\* C5: an assignment that satisfies every constraint load_model emitted selects, for
\* each vehicle, the arcs of one simple cycle through the depot; the customers of the
\* cycles partition the customers and each cycle's demand is within capacity.
C5_ModelsAreRoutings ==
    OutputSatisfies => IsRouting(cvrp, solver, TrueInOutput(fs.output_txt))

\* A satisfying assignment for two vehicles, not the least one (the depot's t is true)
C5_Witness ==
    /\ OutputSatisfies
    /\ Len(solver.matrices) = 2
    /\ solver.mapping[t_i_v(0, 0)] \in TrueInOutput(fs.output_txt)

\* C7: when the decoded arcs are not, for each vehicle, a closed chain from the depot
\* back to the depot, or a customer appears twice, or the chains do not hold all n - 1
\* customers, run does not return: it fails with InconsistentSolution.
DecodedArcs(self, v) ==
    {<<self.routes[k][2], self.routes[k][3]>> :
        k \in {x \in 1..Len(self.routes) : self.routes[x][4] = v}}

WalkSucceeds(inst, self) ==
    LET V == Len(self.matrices)
    IN  /\ \A k, l \in 1..Len(self.routes) : k # l => self.routes[k] # self.routes[l]
        /\ \A v \in 0..(V - 1) : SimpleDepotCycle(DecodedArcs(self, v))
        /\ \A v, l \in 0..(V - 1) :
              v # l => CycleCustomers(DecodedArcs(self, v))
                          \cap CycleCustomers(DecodedArcs(self, l)) = {}
        /\ UNION {CycleCustomers(DecodedArcs(self, v)) : v \in 0..(V - 1)} = Customers(inst)

C7_InconsistentSolutionRaised ==
    pc = "solver_done" => WalkSucceeds(cvrp, solver)

\* C8: when the output holds the line s UNSATISFIABLE, solve ends with an error that
\* differs from the error of the I/O, spawn and protocol failures.
C8_UnsatisfiableDistinguished ==
    (pc = "solver_raised" /\ "output.txt" \in fs.files
        /\ \E k \in 1..Len(fs.output_txt) : fs.output_txt[k].kind = "s"
                                           /\ fs.output_txt[k].text = "UNSATISFIABLE")
    => solver.error # SolveFailed

\* C9: when the command ended with a non-zero status or could not be started, or the
\* output lacks the objective line or the value line, solve does not go on to return.
C9_FailuresRaise ==
    /\ pc = "solve_remove_input" =>
          /\ fs.status = 0
          /\ HasLine(fs.output_txt, "o")
          /\ HasLine(fs.output_txt, "v")
    /\ pc = "solver_done" => fs.status = 0

\* C10: when solve has ended, by a return or by an error, neither input.txt nor
\* output.txt exists.
C10_TempFilesRemoved ==
    pc \in {"solver_return", "solver_done", "solver_raised"} => fs.files = {}

(***************************************************************************)
(* Properties of the pipeline, under SpecRun.                              *)
(***************************************************************************)
RECURSIVE RoutesCost(_, _)
RoutesCost(inst, routes) ==
    IF routes = <<>> THEN 0
    ELSE calculate_cost(inst, routes[1].val.value) + RoutesCost(inst, Tail(routes))

\* decode has returned from an output that reports an optimum and a satisfying assignment
OptimumReturned ==
    /\ pc = "solve_remove_input"
    /\ \E k \in 1..Len(fs.output_txt) : fs.output_txt[k].kind = "s"
                                       /\ fs.output_txt[k].text = "OPTIMUM FOUND"
    /\ HasLine(fs.output_txt, "v")
    /\ Satisfies([constraints |-> solver.constraints], TrueInOutput(fs.output_txt))

C11_DecodesOwnOutput ==
    [][\A p \in Procs :
          Concurrent_solve_decode(p) => fs.command_input = encode(solver[p])]_vars

(***************************************************************************)
(* Properties of ClarkeWright.reduce_routes, checked under SpecCWFair.     *)
(***************************************************************************)
\* Some assignment of all customers of the route keyed key to the other routes
\* keeps every receiving route within capacity
CanAppendAll(inst, routes, key) ==
    LET customers == DictGet(routes, key).value
        others == DictDel(routes, key)
    IN  \E f \in [1..Len(customers) -> 1..Len(others)] :
            \A o \in 1..Len(others) :
                calculate_demand(inst, others[o].val.value)
                  + calculate_demand(inst, SelectSeq(customers,
                        LAMBDA c : \E m \in 1..Len(customers) : customers[m] = c /\ f[m] = o))
                  <= inst.capacity

\* reduce_routes has returned or raised
ReduceEnded == pc \in {"cw_done", "cw_raised"}

\* The place, in the list loads of route demands, of the least demand that has room
\* for customer c (the earliest place among equal demands); 0 when no route has room
FirstFitPlace(inst, loads, c) ==
    LET fits == {k \in 1..Len(loads) : loads[k] + inst.demands[c] <= inst.capacity}
    IN  IF fits = {} THEN 0
        ELSE CHOOSE k \in fits :
                 \A m \in fits : loads[k] < loads[m] \/ (loads[k] = loads[m] /\ k <= m)

\* Every customer of the list, taken in order, finds a place by FirstFitPlace
RECURSIVE FirstFitPlacesAll(_, _, _)
FirstFitPlacesAll(inst, loads, customers) ==
    IF customers = <<>> THEN TRUE
    ELSE LET t == FirstFitPlace(inst, loads, Head(customers))
         IN  /\ t # 0
             /\ FirstFitPlacesAll(inst,
                                  [loads EXCEPT ![t] = @ + inst.demands[Head(customers)]],
                                  Tail(customers))

\* The customers of the route keyed key, in route order, can each be appended to the
\* least loaded of the other routes that has room
FirstFitEliminates(inst, routes, key) ==
    LET others == DictDel(routes, key)
    IN  FirstFitPlacesAll(inst,
                          [k \in 1..Len(others) |-> calculate_demand(inst, others[k].val.value)],
                          DictGet(routes, key).value)

\* A pass of the while loop ends: by removing exactly one route, or by the raise
\* with as many routes as the pass started from
OuterIterationStep ==
    /\ (pc = "reduce_for" /\ pc' = "reduce_routes") =>
           /\ Len(cw.routes) = Len(cw.remotions)
           /\ Len(cw.routes') = Len(cw.remotions) - 1
    /\ (pc = "reduce_for" /\ pc' = "cw_raised") => Len(cw.routes') = Len(cw.remotions)

\* reduce_routes raises only when there are more than K routes and no route can have
\* all its customers appended to the others within capacity; it returns only with at
\* most K routes
RaisesExactlyWhen ==
    /\ pc = "cw_raised" =>
           /\ cw.error = "Cannot reduce the number of routes"
           /\ Len(cw.routes) > cw.vehicle_number
           /\ \A k \in 1..Len(cw.routes) : ~CanAppendAll(cvrp, cw.routes, cw.routes[k].key)
    /\ pc = "cw_done" => Len(cw.routes) <= cw.vehicle_number

\* A route is removed only when the first-fit placement of its customers succeeds,
\* and an attempt is rolled back only when it fails
RemovesWhenFirstFitSucceeds ==
    pc = "reduce_for" /\ pc' \in {"reduce_routes", "reduce_for"} =>
        (pc' = "reduce_routes" <=> FirstFitEliminates(cvrp, cw.routes, cw.remotions[cw.r]))

\* The same with "can be appended" read as the first-fit placement of reduce_routes
RaisesWhenFirstFitFails ==
    /\ pc = "cw_raised" =>
           /\ cw.error = "Cannot reduce the number of routes"
           /\ Len(cw.routes) > cw.vehicle_number
           /\ \A k \in 1..Len(cw.routes) :
                  ~FirstFitEliminates(cvrp, cw.routes, cw.routes[k].key)
    /\ pc = "cw_done" => Len(cw.routes) <= cw.vehicle_number

\* C12 as stated: reduce_routes always terminates; each pass of its while loop either
\* removes exactly one route or raises; it raises exactly when the route count is
\* above K and no single route can have all its customers appended to the remaining
\* routes within capacity.
C12_ReduceTerminates ==
    /\ (pc = "reduce_routes") ~> ReduceEnded
    /\ [][OuterIterationStep]_vars
    /\ []RaisesExactlyWhen

\* C12 amended: reduce_routes always terminates; each pass of its while loop either
\* removes exactly one route or raises; it raises exactly when the route count is
\* above K and for no route the first-fit placement succeeds that appends each of
\* its customers, in route order, to the least loaded other route with room (some
\* other assignment of the customers may exist).
C12_ReduceTerminatesFirstFit ==
    /\ (pc = "reduce_routes") ~> ReduceEnded
    /\ [][OuterIterationStep /\ RemovesWhenFirstFitSucceeds]_vars
    /\ []RaisesWhenFirstFitFails

\* C12 witness: reduce_routes raised after trying every route of a RouteSet of more
\* than K routes, one of which has an assignment of its customers to the others
C12_Witness ==
    /\ pc = "cw_raised"
    /\ cw.r > Len(cw.remotions)
    /\ Len(cw.remotions) > cw.vehicle_number
    /\ \E k \in 1..Len(cw.routes) : CanAppendAll(cvrp, cw.routes, cw.routes[k].key)

(***************************************************************************)
(* Properties of KNeighbors.nearest_neighbors, checked under SpecKN.       *)
(***************************************************************************)
\* The spanning tree is loaded
MstLoaded == pc \in {"kn_load_matrices", "kn_done", "kn_raised"}

\* The neighbours of c in the spanning tree
TreeNeighbors(inst, self, c) == {x \in Nodes(inst) \ {c} : {c, x} \in self.mst}

\* (w1, x1) comes before (w2, x2) in ascending (weight, index) order
Before(w1, x1, w2, x2) == w1 < w2 \/ (w1 = w2 /\ x1 < x2)

\* The part s[lo..hi] of the list lists, in ascending (weight, index) order and
\* without repetition, the first hi - lo + 1 nodes of the set pool
FirstOfPool(s, lo, hi, pool, weight) ==
    /\ \A t \in lo..hi : s[t] \in pool
    /\ \A t, u \in lo..hi : t < u => Before(weight[s[t]], s[t], weight[s[u]], s[u])
    /\ \A t \in lo..hi : \A x \in pool \ {s[u] : u \in lo..hi} :
           Before(weight[s[t]], s[t], weight[x], x)

\* What nearest_neighbors(c) must be when it returns
NeighborsAsClaimed(inst, self, c) ==
    LET k == self.neighbor_number
        res == nearest_neighbors(inst, self, c)
        tree == TreeNeighbors(inst, self, c)
        m == Min(k, Cardinality(tree))
    IN  /\ Len(res) = k
        /\ \A t, u \in 1..k : t # u => res[t] # res[u]
        /\ \A t \in 1..k : res[t] \in Nodes(inst) \ {c}
        /\ FirstOfPool(res, 1, m, tree, [x \in tree |-> EdgeWeight(inst, {c, x})])
        /\ FirstOfPool(res, m + 1, k, Nodes(inst) \ ({c} \cup {res[t] : t \in 1..m}),
                       [x \in Nodes(inst) |-> inst.distances[c, x]])

\* C13: for every customer c, nearest_neighbors(c) returns exactly k distinct nodes,
\* none equal to c: first the neighbours of c in the spanning tree in ascending
\* (tree-edge weight, index) order, up to k, then the nodes of c's distance row in
\* ascending (D[c,x], x) order that are not already chosen; it raises exactly when
\* k > n - 1.
C13_NearestNeighbors ==
    MstLoaded =>
        \A c \in Customers(cvrp) :
            /\ NeighborsMissing(cvrp, kn, c) <=> kn.neighbor_number > cvrp.dimension - 1
            /\ ~NeighborsMissing(cvrp, kn, c) => NeighborsAsClaimed(cvrp, kn, c)

\* C13 witness: load_matrices is over; for some customer the spanning tree gave fewer
\* than k neighbours, the distance row gave the others, and a node of the row was
\* skipped because the tree had already given it
C13_Witness ==
    /\ pc = "kn_done"
    /\ \E c \in Customers(cvrp) :
          LET tree == nearest_neighbors_mst(cvrp, kn, c)
              mat == nearest_neighbors_mat(cvrp, kn, c)
          IN  /\ Len(tree) >= 1
              /\ Len(tree) < kn.neighbor_number
              /\ Contains(tree, mat[1])
              /\ Len(nearest_neighbors(cvrp, kn, c)) = kn.neighbor_number

(***************************************************************************)
(* Properties of ClarkeWright.combine_routes, checked under SpecCW.        *)
(***************************************************************************)
\* The place in the dict of the route that contains customer c; 0 when none does
RouteOf(routes, c) ==
    IF \E k \in 1..Len(routes) : Contains(routes[k].val.value, c)
    THEN CHOOSE k \in 1..Len(routes) : Contains(routes[k].val.value, c)
    ELSE 0

\* Customer c is the first or the last customer of the sequence
IsEndpoint(value, c) == value[1] = c \/ Last(value) = c

\* i and j are endpoints of two distinct routes whose combined demand is <= Q
Mergeable(inst, routes, i, j) ==
    LET ki == RouteOf(routes, i)
        kj == RouteOf(routes, j)
    IN  /\ ki # 0 /\ kj # 0 /\ ki # kj
        /\ IsEndpoint(routes[ki].val.value, i)
        /\ IsEndpoint(routes[kj].val.value, j)
        /\ calculate_demand(inst, routes[ki].val.value)
             + calculate_demand(inst, routes[kj].val.value) <= inst.capacity

\* C14: in the merge pass the routes of an entry (s, i, j) are the routes that contain
\* i and j, wherever they are stored: if i and j are endpoints of two distinct routes
\* whose combined demand is <= Q, the step on the entry merges the two routes.
C14_MergedWhenEndpoints ==
    [][ClarkeWright_combine_routes /\
         Mergeable(cvrp, cw.routes, cw.savings[cw.k][2], cw.savings[cw.k][3])
       => /\ Len(cw.routes') = Len(cw.routes) - 1
          /\ RouteOf(cw.routes', cw.savings[cw.k][2])
               = RouteOf(cw.routes', cw.savings[cw.k][3])]_vars

\* C15: the merge pass never merges two routes on a savings entry whose saving is
\* negative; the step on such an entry leaves the RouteSet as it was (no two routes
\* become one).
C15_NegativeSavingSkipped ==
    [][ClarkeWright_combine_routes /\ cw.savings[cw.k][1] < 0
       => Len(cw.routes') = Len(cw.routes)]_vars

(***************************************************************************)
(* Properties of the attempts of reduce_routes, checked under SpecCW.      *)
(***************************************************************************)
\* The two dicts hold the same routes: the same keys, and under each key the same
\* sequence and the same demand, which is the demand of the sequence
SameRouteSet(inst, before, after) ==
    /\ Range(DictKeys(before)) = Range(DictKeys(after))
    /\ Len(before) = Len(after)
    /\ \A key \in Range(DictKeys(before)) :
          /\ DictGet(after, key).value = DictGet(before, key).value
          /\ Route_demand(inst, DictGet(after, key)) = Route_demand(inst, DictGet(before, key))
          /\ Route_demand(inst, DictGet(after, key))
               = calculate_demand(inst, DictGet(after, key).value)

\* C16: when a reduction attempt on a route fails because one of its customers fits
\* in no remaining route, the RouteSet after the rollback equals the RouteSet before
\* the attempt: the route is back with its sequence, and every other route has its
\* sequence and demand.
C16_RollbackRestores ==
    [][ClarkeWright_reduce_routes_for /\ pc' = "reduce_for"
       => SameRouteSet(cvrp, cw.routes, cw.routes')]_vars

\* C16 witness: an attempt was rolled back after it had appended a customer of the
\* route to another route
C16_Witness ==
    /\ pc = "reduce_for"
    /\ cw.r >= 2
    /\ LET key == cw.remotions[cw.r - 1]
           others == DictDel(cw.routes, key)
           added == AddCustomers(cvrp, others, DictGet(cw.routes, key).value)
       IN  /\ Last(DictKeys(cw.routes)) = key
           /\ added.remaining_customer
           /\ \E k \in 1..Len(others) :
                  Len(added.routes[k].val.value) > Len(others[k].val.value)

\* The depot-radial load of a sequence: the sum of D[c, 0] over its customers
RECURSIVE RadialLoad(_, _)
RadialLoad(inst, value) ==
    IF value = <<>> THEN 0
    ELSE inst.distances[Head(value), 0] + RadialLoad(inst, Tail(value))

\* The sequence of the route keyed key when customer number m of the removed route
\* is about to be placed: its sequence before the attempt, followed by the customers
\* before number m that the attempt appended to it
SequenceBefore(before, after, customers, key, m) ==
    DictGet(before, key).value
      \o SelectSeq(SubSeq(customers, 1, m - 1),
                   LAMBDA c : Contains(DictGet(after, key).value, c))

\* Customer number m was appended to a route that had room for it and whose load
\* was least among the routes that had room
PlacedByLoad(inst, before, after, customers, m, Load(_, _)) ==
    LET keys == Range(DictKeys(after))
        target == after[RouteOf(after, customers[m])].key
        Value(key) == SequenceBefore(before, after, customers, key, m)
        HasRoom(key) ==
            calculate_demand(inst, Value(key)) + inst.demands[customers[m]] <= inst.capacity
    IN  /\ HasRoom(target)
        /\ \A key \in keys : HasRoom(key) => Load(inst, Value(target)) <= Load(inst, Value(key))

\* C17: during reduction each customer of the route being eliminated is appended to
\* the first remaining route, in ascending order of the route's depot-radial load,
\* whose demand plus the customer's demand is <= Q.
C17_PlacedByRadialLoad ==
    [][ClarkeWright_reduce_routes_for /\ pc' = "reduce_routes"
       => LET customers == DictGet(cw.routes, cw.remotions[cw.r]).value
          IN  \A m \in 1..Len(customers) :
                  PlacedByLoad(cvrp, cw.routes, cw.routes', customers, m, RadialLoad)]_vars

\* In the list of candidates for elimination, of two routes with the same number of
\* customers the one with the smaller index comes first
EliminationTiesByIndex ==
    \A p, q \in 1..Len(cw.remotions) :
        (/\ p < q
         /\ Len(DictGet(cw.routes, cw.remotions[p]).value)
              = Len(DictGet(cw.routes, cw.remotions[q]).value))
        => cw.remotions[p] < cw.remotions[q]

\* Customer number m was appended to the route of least index among the routes that
\* had room for it and the same load (demand and depot-radial load) as the route
\* that received it
ReceivingTieByIndex(inst, before, after, customers, m) ==
    LET keys == Range(DictKeys(after))
        target == after[RouteOf(after, customers[m])].key
        Value(key) == SequenceBefore(before, after, customers, key, m)
        HasRoom(key) ==
            calculate_demand(inst, Value(key)) + inst.demands[customers[m]] <= inst.capacity
    IN  \A key \in keys :
            (/\ HasRoom(key)
             /\ calculate_demand(inst, Value(key)) = calculate_demand(inst, Value(target))
             /\ RadialLoad(inst, Value(key)) = RadialLoad(inst, Value(target)))
            => target <= key

\* C18: in reduction, routes of equal priority are tried in ascending route index:
\* among the candidates for elimination with the same number of customers, and among
\* the receiving routes with the same load, the one with the smaller index is tried
\* first, also after an earlier attempt of the same run was rolled back.
C18_TiesByIndex ==
    /\ [](pc = "reduce_for" => EliminationTiesByIndex)
    /\ [][ClarkeWright_reduce_routes_for /\ pc' = "reduce_routes"
          => LET customers == DictGet(cw.routes, cw.remotions[cw.r]).value
             IN  \A m \in 1..Len(customers) :
                     ReceivingTieByIndex(cvrp, cw.routes, cw.routes', customers, m)]_vars

(***************************************************************************)
(* Properties of ClarkeWright.load_savings, checked under SpecCW.          *)
(***************************************************************************)
\* load_savings has run
SavingsLoaded == pc # "load_savings"

\* The saving of joining customers i and j
Saving(inst, i, j) == inst.distances[0, i] + inst.distances[0, j] - inst.distances[i, j]

\* C19: load_savings produces one entry (s, i, j) with s = D[0,i] + D[0,j] - D[i,j]
\* for every pair 1 <= i < j < n and no other entry, ordered by s descending, the
\* entries of equal s in ascending lexicographic (i, j) order.
C19_SavingsList ==
    SavingsLoaded =>
        LET sv == cw.savings
            n == cvrp.dimension
        IN  /\ \A i, j \in 1..(n - 1) :
                   i < j => Cardinality({p \in 1..Len(sv) : sv[p][2] = i /\ sv[p][3] = j}) = 1
            /\ \A p \in 1..Len(sv) :
                   /\ sv[p][2] \in 1..(n - 1) /\ sv[p][3] \in 1..(n - 1)
                   /\ sv[p][2] < sv[p][3]
                   /\ sv[p][1] = Saving(cvrp, sv[p][2], sv[p][3])
            /\ \A p, q \in 1..Len(sv) :
                   p < q =>
                       \/ sv[p][1] > sv[q][1]
                       \/ /\ sv[p][1] = sv[q][1]
                          /\ \/ sv[p][2] < sv[q][2]
                             \/ sv[p][2] = sv[q][2] /\ sv[p][3] < sv[q][3]

\* C19 witness: the list is loaded; it has entries of equal saving, one of which was
\* moved before an entry of a smaller pair, and a negative saving
C19_Witness ==
    /\ pc = "load_routes"
    /\ \E p, q \in 1..Len(cw.savings) :
          p < q /\ cw.savings[p][1] = cw.savings[q][1]
    /\ \E p, q \in 1..Len(cw.savings) :
          /\ p < q
          /\ cw.savings[p][1] > cw.savings[q][1]
          /\ cw.savings[p][2] > cw.savings[q][2]
    /\ \E p \in 1..Len(cw.savings) : cw.savings[p][1] < 0

(***************************************************************************)
(* Properties of the merges of combine_routes, checked under SpecCW.       *)
(***************************************************************************)
\* The sequence read from its last customer to its first
Reversed(value) == [k \in 1..Len(value) |-> value[Len(value) + 1 - k]]

\* The step joins two customers that were in different routes
MergeStep ==
    /\ ClarkeWright_combine_routes
    /\ \E c1, c2 \in Customers(cvrp) :
          /\ RouteOf(cw.routes, c1) # RouteOf(cw.routes, c2)
          /\ RouteOf(cw.routes', c1) = RouteOf(cw.routes', c2)

\* Customers i and j are next to each other, i first, in the sequence
Adjacent(value, i, j) == \E t \in 1..(Len(value) - 1) : value[t] = i /\ value[t + 1] = j

\* What a merge on the entry (s, i, j) does to the routes
MergeAsClaimed(inst, before, after, i, j) ==
    LET Ri == DictGet(before, i).value
        Rj == DictGet(before, j).value
        Oi == IF Last(Ri) = i THEN Ri ELSE Reversed(Ri)
        Oj == IF Rj[1] = j THEN Rj ELSE Reversed(Rj)
        merged == DictGet(after, i)
    IN  /\ DictHas(before, i) /\ DictHas(before, j)
        /\ Last(Oi) = i /\ Oj[1] = j
        /\ DictHas(after, i) /\ ~DictHas(after, j)
        /\ merged.value = Oi \o Oj
        /\ Adjacent(merged.value, i, j)
        /\ Len(after) = Len(before) - 1
        /\ Route_demand(inst, merged)
             = calculate_demand(inst, Ri) + calculate_demand(inst, Rj)
        /\ Route_demand(inst, merged) <= inst.capacity
        /\ \A key \in Range(DictKeys(after)) \ {i} :
               DictGet(after, key).value = DictGet(before, key).value

\* C20: every merge of the merge pass on an entry (s, i, j) replaces R_i by R_i, with i
\* as its last customer, followed by R_j, with j as its first customer, and removes
\* R_j: afterwards i and j are adjacent in one route, the route count has dropped by
\* exactly one, and the demand of the merged route is demand(R_i) + demand(R_j) <= Q.
C20_MergeConcatenates ==
    [][MergeStep => MergeAsClaimed(cvrp, cw.routes, cw.routes',
                                   cw.savings[cw.k][2], cw.savings[cw.k][3])]_vars

\* C20 witness: the entry just processed merged two routes into a route of at least
\* three customers, the first of which had been reversed to bring i to its end
C20_Witness ==
    /\ pc = "combine_routes"
    /\ cw.k >= 2
    /\ LET i == cw.savings[cw.k - 1][2]
           j == cw.savings[cw.k - 1][3]
       IN  /\ DictHas(cw.routes, i)
           /\ Adjacent(DictGet(cw.routes, i).value, i, j)
           /\ Len(DictGet(cw.routes, i).value) >= 3
           /\ DictGet(cw.routes, i).value[1] > i

(***************************************************************************)
(* The entries of the candidate matrices, checked under SpecKN.            *)
(***************************************************************************)
\* The pairs the claim lists for a route, in both directions
ClaimedPairs(inst, self, route) ==
    LET consecutive == {<<route[t], route[t + 1]>> : t \in 1..(Len(route) - 1)}
        boundary == {<<0, route[1]>>, <<Last(route), 0>>}
        neighbor == UNION {{<<route[t], v>> : v \in Range(nearest_neighbors(inst, self, route[t]))} :
                             t \in 1..Len(route)}
        oneway == consecutive \cup boundary \cup neighbor
    IN  oneway \cup {<<p[2], p[1]>> : p \in oneway}

EntriesAsClaimed(inst, self, route, matrix) ==
    \A i, j \in Nodes(inst) :
        i # j => IF <<i, j>> \in ClaimedPairs(inst, self, route)
                 THEN matrix[i, j] >= 0
                 ELSE matrix[i, j] = -1

\* C21: in every matrix load_matrices has stored for a route r, the off-diagonal
\* entries that are >= 0 are exactly, in both directions, the pairs of consecutive
\* customers of r, the two depot edges (0, r[0]) and (r[-1], 0), and (c, v) for
\* every customer c of r and every neighbor v of c; every other off-diagonal entry
\* is -1.
C21_MatrixEntries ==
    InKN =>
        \A m \in 1..Len(kn.matrices) :
            EntriesAsClaimed(cvrp, kn, DictGet(kn.routes, kn.matrices[m].key).value,
                             kn.matrices[m].val)

\* C21 witness: two matrices are stored; one of them has an entry opened by a
\* neighbor only (neither a route edge nor a depot edge of its route) and an entry
\* left at -1
C21_Witness ==
    /\ pc = "kn_done"
    /\ Len(kn.matrices) = 2
    /\ \E m \in 1..Len(kn.matrices) :
          LET route == DictGet(kn.routes, kn.matrices[m].key).value
              matrix == kn.matrices[m].val
          IN  /\ Len(route) >= 2
              /\ \E i, j \in Nodes(cvrp) : i # j /\ matrix[i, j] = -1
              /\ \E c, v \in Customers(cvrp) :
                    /\ Contains(route, c) /\ ~Contains(route, v)
                    /\ matrix[c, v] >= 0

(***************************************************************************)
(* Properties of the Route object, checked under SpecRoute.                *)
(***************************************************************************)
InRoute == pc = "route"

\* The sum of demand[c] over the sequence
RECURSIVE SumOfDemands(_, _, _)
SumOfDemands(inst, value, t) ==
    IF t > Len(value) THEN 0 ELSE inst.demands[value[t]] + SumOfDemands(inst, value, t + 1)

\* The sum of D[seq[t], seq[t + 1]] from position t on
RECURSIVE SumOfLegs(_, _, _)
SumOfLegs(inst, value, t) ==
    IF t >= Len(value) THEN 0
    ELSE inst.distances[value[t], value[t + 1]] + SumOfLegs(inst, value, t + 1)

MemoAgrees(inst, r) ==
    /\ Route_demand(inst, r) = SumOfDemands(inst, r.value, 1)
    /\ r.value # <<>> =>
          Route_cost(inst, r) = inst.distances[0, r.value[1]] + SumOfLegs(inst, r.value, 1)
                                  + inst.distances[Last(r.value), 0]

\* C22: after any sequence of append, remove, reversed and + on routes, what
\* route.demand returns is the sum of the demands over the current sequence, and what
\* route.cost returns (on a route that is not empty) is D[0, seq[0]] plus the legs
\* between consecutive customers plus D[seq[-1], 0] of the current sequence.
C22_MemoAgrees == InRoute => MemoAgrees(cvrp, rt.self) /\ MemoAgrees(cvrp, rt.other)

\* C22 witness: both memos of a route of MaxRouteLen customers are filled, and the
\* route is neither of the two the run began with
C22_Witness ==
    /\ InRoute
    /\ Len(rt.self.value) = MaxRouteLen
    /\ rt.self._demand >= 0 /\ rt.self._cost >= 0
    /\ rt.other._demand >= 0 /\ Len(rt.other.value) >= 2

\* The sequence with its subrange [i, j) reversed (0-based, half-open)
SubrangeReversed(value, i, j) ==
    IF i >= j THEN value
    ELSE SubSeq(value, 1, i) \o Reversed(SubSeq(value, i + 1, j))
           \o SubSeq(value, j + 1, Len(value))

ReversedAsClaimed(inst, i, j) ==
    /\ rt'.self.value = rt.self.value
    /\ rt'.other.value = SubrangeReversed(rt.self.value, i, j)
    /\ Route_reversed(inst, rt'.other, i, j).value = rt.self.value
    /\ i = 0 /\ j = Len(rt.self.value) =>
          /\ Route_demand(inst, rt'.other) = Route_demand(inst, rt.self)
          /\ rt.self.value # <<>> => Route_cost(inst, rt'.other) = Route_cost(inst, rt.self)

\* C23: route.reversed(i, j) returns a new route that is the original with the
\* subrange [i, j) reversed and leaves the sequence of the original as it was;
\* reversed(i, j) applied to the result gives the original sequence back; and the
\* whole sequence reversed has the cost and the demand of the original.
C23_Reversed ==
    [][\A i \in 0..MaxRouteLen, j \in 0..MaxRouteLen :
          i <= Len(rt.self.value) /\ j <= Len(rt.self.value) /\ Route_call_reversed(i, j)
              => ReversedAsClaimed(cvrp, i, j)]_vars

\* C23 witness: the last call was reversed on a route of MaxRouteLen distinct
\* customers, and it reversed a part of the route and not the whole of it
C23_Witness ==
    /\ InRoute
    /\ rt.fresh
    /\ Len(rt.self.value) = MaxRouteLen
    /\ Cardinality(Range(rt.self.value)) = MaxRouteLen
    /\ rt.other.value # rt.self.value
    /\ rt.other.value # Reversed(rt.self.value)

(***************************************************************************)
(* The passes of TwoOpt.improve_routes, checked under SpecTwoOptFair.      *)
(***************************************************************************)
\* A pass ends: its candidates are the reversals of route[i..j] for i < j
PassAsClaimed(inst) ==
    LET before == to.route.value
        cands == {ReverseSlice(before, ij[1], ij[2] + 1) :
                    ij \in {p \in (0..(Len(before) - 1)) \X (0..(Len(before) - 1)) : p[1] < p[2]}}
    IN  IF pc' = "to_while"
        THEN /\ to'.route.value \in cands
             /\ \A c \in cands : calculate_cost(inst, to'.route.value) <= calculate_cost(inst, c)
             /\ calculate_cost(inst, to'.route.value) < calculate_cost(inst, before)
        ELSE /\ \A c \in cands : calculate_cost(inst, c) >= calculate_cost(inst, before)
             /\ to'.route.value = before

\* C24: improve_routes ends for every RouteSet; a pass after which the loop goes on
\* has replaced the route by a candidate of that pass of lowest cost, and that cost
\* is strictly smaller than the cost of the route before the pass; the loop stops at
\* the first pass in which no reversal improves the route.
C24_TwoOptTerminates ==
    /\ [][TwoOpt_pass_end => PassAsClaimed(cvrp)]_vars
    /\ <>(pc = "to_done")

\* C24 witness: the stage has ended after a pass replaced a route of MaxCustomers
\* customers
C24_Witness ==
    /\ pc = "to_done"
    /\ \E k \in 1..Len(to.routes) :
          /\ Len(to.entry[k].val.value) = MaxCustomers
          /\ calculate_cost(cvrp, to.routes[k].val.value)
                < calculate_cost(cvrp, to.entry[k].val.value)

(***************************************************************************)
(* Properties of Solver.get, checked under SpecGet.                        *)
(***************************************************************************)
InGet == pc = "solver_get"

\* The literals are 1..counter-1, and mapping and mapping_inv are inverse bijections
\* between the names and the literals
MappingWellFormed(self) ==
    /\ self.counter >= 1
    /\ {self.mapping[name] : name \in DOMAIN self.mapping} = 1..(self.counter - 1)
    /\ DOMAIN self.mapping_inv = 1..(self.counter - 1)
    /\ \A name \in DOMAIN self.mapping : self.mapping_inv[self.mapping[name]] = name
    /\ \A x \in DOMAIN self.mapping_inv :
          /\ self.mapping_inv[x] \in DOMAIN self.mapping
          /\ self.mapping[self.mapping_inv[x]] = x

\* get on a name already mentioned returns its literal and changes nothing
GetIsIdempotent(self) ==
    \A name \in DOMAIN self.mapping :
        get(self, name) = self /\ Lit(self, name) = self.mapping[name]

\* C25: after any sequence of calls of get the counter, which starts at 1, has only
\* grown, the literals given out are exactly 1..counter-1, mapping and mapping_inv are
\* inverse bijections between names and literals, and get on a name already
\* mentioned returns the literal it has and leaves the object as it is.
C25_GetMapping ==
    /\ [](InGet => MappingWellFormed(solver) /\ GetIsIdempotent(solver))
    /\ [][InGet => solver'.counter >= solver.counter]_vars

\* C25 witness: every name of GetNames has been passed to get
C25_Witness == InGet /\ DOMAIN solver.mapping = GetNames

(***************************************************************************)
(* Properties of Solver.decode, checked under SpecDecode.                  *)
(***************************************************************************)
Decoded == pc = "solve_remove_input"

\* The integers > 0 that occur in the v lines of the output
PositiveLiterals(output) ==
    {x \in UNION {Range(output[l].lits) : l \in {m \in 1..Len(output) : output[m].kind = "v"}} :
        x > 0}

\* The w variables among the names of the literals
ArcsOfLiterals(self, literals) ==
    {self.mapping_inv[x] : x \in {y \in literals \cap DOMAIN self.mapping_inv :
                                     self.mapping_inv[y][1] = "w"}}

\* The positions of the o lines
ObjectiveLines(output) == {l \in 1..Len(output) : output[l].kind = "o"}

\* C26: when decode returns, the names it has put into self.routes are, as a set,
\* exactly the w variables whose literal occurs as an integer > 0 in a v line of the
\* output (negative literals, unknown literals and literals of t and c variables add
\* nothing), and self.optimum is the value of the last o line.
C26_DecodeSelectsArcs ==
    Decoded =>
        /\ Range(solver.routes) = ArcsOfLiterals(solver, PositiveLiterals(fs.output_txt))
        /\ \A l \in ObjectiveLines(fs.output_txt) :
              (\A m \in ObjectiveLines(fs.output_txt) : m <= l)
                  => solver.optimum = fs.output_txt[l].value

\* C26 witness: decode has returned on an output with two o lines of different
\* values and two v lines; a w literal is true in one line, another w literal is
\* false there and true in the other line, and the literals of a t variable and of an
\* unknown variable are true
C26_Witness ==
    /\ Decoded
    /\ Len(fs.output_txt) = 4
    /\ fs.output_txt[1].kind = "o" /\ fs.output_txt[2].kind = "o"
    /\ fs.output_txt[1].value # fs.output_txt[2].value
    /\ fs.output_txt[3].kind = "v" /\ fs.output_txt[4].kind = "v"
    /\ {1, 5} \subseteq PositiveLiterals(fs.output_txt)
    /\ Range(solver.routes) = {w_i_j_v(0, 1, 0), w_i_j_v(1, 0, 0)}

(***************************************************************************)
(* The seed routes as a solution of the model, checked under SpecRun.      *)
(***************************************************************************)
\* load_model has run on the matrices of KNeighbors.run
ModelLoaded == pc = "solve_write"

\* The seed route of vehicle v (0-based): the route whose matrix is matrices[v]
SeedRoute(v) == DictGet(kn.routes, kn.matrices[v + 1].key).value

\* The arcs 0 -> r[0] -> ... -> r[-1] -> 0
SeedArcs(r) ==
    {<<0, r[1]>>, <<Last(r), 0>>} \cup {<<r[k], r[k + 1]>> : k \in 1..(Len(r) - 1)}

\* The pairs joined by a path of the arcs that does not pass through the depot
SeedPaths(r) ==
    SeedArcs(r) \cup {<<r[km[1]], r[km[2]]>> :
                        km \in {p \in (1..Len(r)) \X (1..Len(r)) : p[1] < p[2]}}

\* The variables that are true in the assignment of the seed routes
SeedAssignment(self) ==
    UNION {{self.mapping[w_i_j_v(p[1], p[2], v)] : p \in SeedArcs(SeedRoute(v))}
             \cup {self.mapping[t_i_v(c, v)] : c \in Range(SeedRoute(v))}
             \cup {self.mapping[c_i_j_v(p[1], p[2], v)] : p \in SeedPaths(SeedRoute(v))} :
           v \in 0..(Len(self.matrices) - 1)}

\* C27: the assignment that selects for every vehicle the arcs of its seed route
\* (t true on the customers of the route, c true on the pairs its arcs join)
\* satisfies every constraint load_model has emitted for the routes of the
\* heuristic stages and their matrices, a seed route of one customer included.
C27_SeedSatisfiesModel ==
    ModelLoaded => Satisfies([constraints |-> solver.constraints], SeedAssignment(solver))

(***************************************************************************)
(* The arcs load_model forces to false, under SpecRun.                     *)
(***************************************************************************)
\* The model holds the constraint w_i_j_v = 0
ForcedFalse(self, i, j, v) ==
    \E k \in 1..Len(self.constraints) :
        self.constraints[k] = add_constraint_eq(<<>>, <<Lit(self, w_i_j_v(i, j, v))>>, 0)

\* C28: in the loaded model w_i_j_v is forced to 0 for exactly the pairs i # j
\* whose entry in the matrix of vehicle v is -1: an edge that load_matrices
\* populated for v, one of distance 0 included, is not forced to 0.
C28_ForcedExactlyMasked ==
    ModelLoaded =>
        \A v \in 0..(Len(solver.matrices) - 1) :
            \A i, j \in Nodes(cvrp) :
                i # j => (ForcedFalse(solver, i, j, v) <=> solver.matrices[v + 1][i, j] = -1)

(***************************************************************************)
(* The savings entries combine_routes skips, checked under SpecCW.         *)
(***************************************************************************)
\* The for loop of combine_routes reaches a continue on the entry (s, i, j)
EntrySkipped(inst, routes, i, j) ==
    \/ ~DictHas(routes, i) \/ ~DictHas(routes, j)
    \/ /\ DictHas(routes, i) /\ DictHas(routes, j)
       /\ LET Ri == DictGet(routes, i).value
              Rj == DictGet(routes, j).value
              Oi == IF Ri[1] = i THEN Reversed(Ri) ELSE Ri
              Oj == IF Last(Rj) = j THEN Reversed(Rj) ELSE Rj
          IN  \/ Ri = Rj
              \/ Last(Oi) # i \/ Oj[1] # j
              \/ calculate_demand(inst, Oi) + calculate_demand(inst, Oj) > inst.capacity

\* What a skipped entry (s, i, j) leaves of the routes
SkipAsClaimed(inst, before, after, i, j) ==
    /\ Len(after) = Len(before)
    /\ DictKeys(after) = DictKeys(before)
    /\ \A key \in Range(DictKeys(before)) :
          LET b == DictGet(before, key)
              a == DictGet(after, key)
          IN  /\ Range(a.value) = Range(b.value)
              /\ Len(a.value) = Len(b.value)
              /\ Route_cost(inst, a) = Route_cost(inst, b)
              /\ Route_demand(inst, a) = Route_demand(inst, b)
              /\ \/ a.value = b.value
                 \/ key \in {i, j} /\ a.value = Reversed(b.value)

\* C29: a savings entry (s, i, j) that the merge pass skips leaves the number of
\* routes, the customers of every route and the cost and the demand of every route
\* as they were; at most the route of i or the route of j is reversed.
C29_SkipKeepsRoutes ==
    [][ClarkeWright_combine_routes /\
         EntrySkipped(cvrp, cw.routes, cw.savings[cw.k][2], cw.savings[cw.k][3])
       => SkipAsClaimed(cvrp, cw.routes, cw.routes',
                        cw.savings[cw.k][2], cw.savings[cw.k][3])]_vars

\* C29 witness: the entry just processed met two routes, the first of at least two
\* customers, oriented so that i ends the first and j starts the second, and was
\* skipped because their combined demand exceeds the capacity
C29_Witness ==
    /\ pc = "combine_routes"
    /\ cw.k >= 2
    /\ LET i == cw.savings[cw.k - 1][2]
           j == cw.savings[cw.k - 1][3]
       IN  /\ DictHas(cw.routes, i) /\ DictHas(cw.routes, j)
           /\ Len(DictGet(cw.routes, i).value) >= 2
           /\ Last(DictGet(cw.routes, i).value) = i
           /\ DictGet(cw.routes, i).value[1] > i
           /\ DictGet(cw.routes, j).value[1] = j
           /\ MergeExceedsCapacity(cvrp, DictGet(cw.routes, i), DictGet(cw.routes, j))

(***************************************************************************)
(* reduce_routes after a merge pass that left at most K routes, under      *)
(* SpecCW.                                                                 *)
(***************************************************************************)
\* combine_routes has returned at most vehicle_number routes and reduce_routes has
\* not yet started its for loop
MergeLeftAtMostK ==
    /\ pc = "reduce_routes"
    /\ cw.remotions = <<>>
    /\ Len(cw.routes) <= cw.vehicle_number

\* C30: when the merge pass leaves at most K routes, reduce_routes changes nothing
\* and run returns the routes of the merge pass, which can be fewer than K; no step
\* of reduce_routes makes the number of routes grow (a route is never split).
C30_ReduceKeepsMergeResult ==
    /\ [][MergeLeftAtMostK => pc' = "cw_done" /\ cw' = cw]_vars
    /\ [][(pc \in {"reduce_routes", "reduce_for"}) => Len(cw.routes') <= Len(cw.routes)]_vars

\* C30 witness: run has returned fewer than K routes, of which one holds at least
\* two customers, and reduce_routes never entered its loop
C30_Witness ==
    /\ pc = "cw_done"
    /\ cw.remotions = <<>>
    /\ Len(cw.routes) < cw.vehicle_number
    /\ \E k \in 1..Len(cw.routes) : Len(cw.routes[k].val.value) >= 2

====
